---- MODULE Spec2Model ----
(***************************************************************************)
(* The OpenAI gateway of backend/apps/openai/main.py: the model-catalog    *)
(* aggregation (get_all_models, merge_models_lists), the administrative    *)
(* updates of the URL and key lists, the payload normalisation of          *)
(* generate_chat_completion, and the outbound connection handling of       *)
(* generate_chat_completion and proxy with its streaming relay.            *)
(*                                                                         *)
(* Python strings on which the code does substring or prefix tests (model  *)
(* ids, base URLs) are sequences of tokens, cut so that every substring    *)
(* the code tests for is a token. Python indices are kept 0-based in the   *)
(* data (urlIdx, url_idx); a list is a sequence, so list[i] is seq[i + 1]. *)
(* An optional value (a dict key that may be absent, a value that may be   *)
(* None) is a set with at most one element.                                *)
(***************************************************************************)
EXTENDS Integers, Sequences, FiniteSets, TLC

\* ------------------------------------------------------------------ bounds

MaxUrls == 2
MaxKeys == 2
MaxModels == 1
MaxRequests == 2

\* ----------------------------------------------------------------- strings

S_gpt == <<"gpt">>
S_api_openai_com == <<"api.openai.com">>
OpenAIUrl == <<"https://", "api.openai.com", "/v1">>
OllamaUrl == <<"http://", "localhost:11434", "/v1">>
EuOpenAIUrl == <<"https://", "eu.", "api.openai.com", "/v1">>
ID_gpt_4 == <<"gpt", "-4">>
ID_whisper_1 == <<"whisper", "-1">>
ID_llama3 == <<"llama", "3">>
ID_gpt_4_vision_preview == <<"gpt", "-4", "-vision-preview">>
ID_moonshot_v1_8k == <<"moonshot", "-v1-8k">>
ID_moonshot_v1_32k == <<"moonshot", "-v1-32k">>
ID_moonshot_v1_64k == <<"moonshot", "-v1-64k">>
ID_moonshot_v1_128k == <<"moonshot", "-v1-128k">>
ID_LeAgent_1 == <<"LeAgent", "-1">>
ID_ERNIE_4_0_8K == <<"ERNIE", "-4.0-8K">>
ID_ERNIE_4_0_8K_Preview == <<"ERNIE", "-4.0-8K", "-Preview">>
ID_ERNIE_4_0_8K_Preview_0518 == <<"ERNIE", "-4.0-8K", "-Preview", "-0518">>
ID_ERNIE_4_0_8K_Latest == <<"ERNIE", "-4.0-8K", "-Latest">>
ID_ERNIE_4_0_8K_0329 == <<"ERNIE", "-4.0-8K", "-0329">>
ID_ERNIE_4_0_8K_0613 == <<"ERNIE", "-4.0-8K", "-0613">>
ID_ERNIE_4_0_Turbo_8K == <<"ERNIE", "-4.0", "-Turbo", "-8K">>
ID_ERNIE_4_0_Turbo_8K_Preview == <<"ERNIE", "-4.0", "-Turbo", "-8K", "-Preview">>
ID_ERNIE_3_5_8K == <<"ERNIE", "-3.5-8K">>

\* Python's `sub in s` on strings.
Contains(sub, s) ==
    \E i \in 0..(Len(s) - Len(sub)) : SubSeq(s, i + 1, i + Len(sub)) = sub

\* All sequences over S of length at most n.
SeqsUpTo(S, n) == UNION {[1..k -> S] : k \in 0..n}

\* The set of elements of a sequence.
Range(s) == {s[i] : i \in 1..Len(s)}

\* ------------------------------------------------------- the configuration

VARIABLES
    ENABLE_OPENAI_API,      \* app.state.config.ENABLE_OPENAI_API: "True" | "False" | "None"
    OPENAI_API_BASE_URLS,   \* app.state.config.OPENAI_API_BASE_URLS: sequence of URLs
    OPENAI_API_KEYS,        \* app.state.config.OPENAI_API_KEYS: sequence of keys
    MODELS,                 \* app.state.MODELS: function from model ids to entries
    request,                \* the request in flight: its handler and where it stands
    pass,                   \* the run of get_all_models that request is in, or has just ended
    call,                   \* the latest request that ended: its handler and its error
    listing                 \* what the latest model-listing request asked for and got

VARIABLES
    ENABLE_MODEL_FILTER,    \* app.state.config.ENABLE_MODEL_FILTER
    MODEL_FILTER_LIST       \* app.state.config.MODEL_FILTER_LIST: the allowed model ids

filterVars == <<ENABLE_MODEL_FILTER, MODEL_FILTER_LIST>>

\* Requests in flight at the same time: for each its handler, where it stands,
\* whether it found the catalog empty, the get_all_models of its middleware and
\* of its handler, and what its handler read in the catalog. origin is the
\* gather (responses, URL list) the stored catalog was built from.
VARIABLES requests, origin
concVars == <<requests, origin>>

aggVars ==
    <<ENABLE_OPENAI_API, OPENAI_API_BASE_URLS, OPENAI_API_KEYS, MODELS, request, pass, call,
      listing, filterVars, concVars>>

VARIABLES
    px,                     \* the outbound call of generate_chat_completion or proxy: r, session, streaming
    resp,                   \* the backend's response to it: status, headers, body
    out,                    \* what the caller of the gateway gets: a JSON body, a stream or an error
    stream                  \* r.content and the relay: bytes received, buffered, delivered

pxVars == <<px, resp, out, stream>>

\* The inbound chat-completion request, the model's profile, the calling user,
\* and the payload the handler builds from them.
VARIABLES form_data, model_info, user, payload
normVars == <<form_data, model_info, user, payload>>

\* The stream of a specialized handler: what its upstream has sent and what
\* event_generator has yielded to the caller.
VARIABLE sse

UrlUniverse == {OpenAIUrl, OllamaUrl}
KeyUniverse == {"", "sk-1"}
UrlLists == SeqsUpTo(UrlUniverse, MaxUrls)
KeyLists == SeqsUpTo(KeyUniverse, MaxKeys)

\* Optional[bool] of OpenAIConfigForm.enable_openai_api, and its truth value.
EnableValues == {"True", "False", "None"}
Truthy(b) == b = "True"

\* ------------------------------------------------- what the backends answer

\* A model record as a backend lists it: its id and, for some, a name.
BackendModels ==
    << [id |-> ID_gpt_4, name |-> {}],
       [id |-> ID_llama3, name |-> {"Llama 3"}],
       [id |-> ID_moonshot_v1_8k, name |-> {}],
       [id |-> ID_moonshot_v1_32k, name |-> {}] >>

BackendModelSet == Range(BackendModels)

\* The lists a backend can answer with: up to MaxModels records, in the order
\* of BackendModels.
ModelLists ==
    { [i \in 1..Len(ix) |-> BackendModels[ix[i]]] :
        ix \in { s \in SeqsUpTo(1..Len(BackendModels), MaxModels) :
                   \A i \in 1..(Len(s) - 1) : s[i] < s[i + 1] } }

\* What fetch_url returns: None (time-out, connection error, undecodable body)
\* or the decoded JSON value: t is its Python type, has_data says whether a dict
\* has the key "data", items is the list (the value itself or response["data"]).
PyNone == [t |-> "None", has_data |-> FALSE, items |-> <<>>]
PyList(items) == [t |-> "list", has_data |-> FALSE, items |-> items]
PyDictData(items) == [t |-> "dict", has_data |-> TRUE, items |-> items]
PyDictNoData == [t |-> "dict", has_data |-> FALSE, items |-> <<>>]
PyInt == [t |-> "int", has_data |-> FALSE, items |-> <<>>]
\* A JSON string; has_data says whether the text contains "data".
PyStr(has_data) == [t |-> "str", has_data |-> has_data, items |-> <<>>]

Responses ==
    {PyNone, PyDictNoData, PyInt, PyStr(FALSE), PyStr(TRUE)}
        \cup {PyList(l) : l \in ModelLists}
        \cup {PyDictData(l) : l \in ModelLists}

\* A few of them, for the runs that follow one request with another.
Answers ==
    {PyNone, PyInt, PyDictData(<<BackendModels[2]>>)}

\* ------------------------------------------------------------- aggregation

\* The lambda without its `response and` guard: "data" in None raises TypeError.
response_models_unguarded(response) ==
    IF response.t \in {"None", "int"} \/ (response.t = "str" /\ response.has_data)
        THEN [raised |-> TRUE, models |-> PyNone]
        ELSE [raised |-> FALSE,
              models |-> IF response.t = "list" THEN response
                         ELSE IF response.has_data THEN PyList(response.items) ELSE PyNone]

\* The lambda of get_all_models that turns a response into a model list or None:
\*   response["data"] if (response and "data" in response)
\*   else (response if isinstance(response, list) else None)
\* `response and` stops at None, an empty list and an empty dict; `"data" in`
\* a non-zero number raises TypeError, and so does ["data"] on a string that
\* contains "data".
response_models(response) ==
    CASE response.t = "None" -> [raised |-> FALSE, models |-> PyNone]
      [] response.t = "int" -> [raised |-> TRUE, models |-> PyNone]
      [] response.t = "str" -> [raised |-> response.has_data, models |-> PyNone]
      [] response.t = "dict" ->
            [raised |-> FALSE,
             models |-> IF response.has_data THEN PyList(response.items) ELSE PyNone]
      [] response.t = "list" -> [raised |-> FALSE, models |-> response]

\* The entry merge_models_lists builds for a model of the list at position idx.
merged_entry(model, idx) ==
    [id |-> model.id,
     name |-> IF model.name = {} THEN model.id ELSE <<CHOOSE n \in model.name : TRUE>>,
     owned_by |-> "openai",
     urlIdx |-> {idx}]

\* A filter that compares the URL with the canonical one.
keeps_model_canonical_only(model, url) ==
    url # OpenAIUrl \/ Contains(S_gpt, model.id)

\* The comprehension's filter: the URL at idx has no "api.openai.com", or the id has "gpt".
keeps_model(model, url) ==
    ~Contains(S_api_openai_com, url) \/ Contains(S_gpt, model.id)

\* The entries one model list contributes, in list order.
RECURSIVE list_entries(_, _, _)
list_entries(models, idx, url) ==
    IF models = <<>> THEN <<>>
    ELSE LET rest == list_entries(Tail(models), idx, url)
         IN  IF keeps_model(Head(models), url)
                 THEN <<merged_entry(Head(models), idx)>> \o rest
                 ELSE rest

\* merge_models_lists over the lists from position idx on (0-based). The filter
\* reads OPENAI_API_BASE_URLS[idx] once per model: IndexError when a list with
\* models stands at a position the URL list does not have.
RECURSIVE merge_from(_, _, _)
merge_from(model_lists, urls, idx) ==
    IF idx >= Len(model_lists) THEN [raised |-> FALSE, list |-> <<>>]
    ELSE LET models == model_lists[idx + 1]
             rest == merge_from(model_lists, urls, idx + 1)
         IN  IF models.t # "list" \/ models.items = <<>> THEN rest
             ELSE IF idx >= Len(urls) THEN [raised |-> TRUE, list |-> <<>>]
             ELSE [raised |-> rest.raised,
                   list |-> IF rest.raised THEN <<>>
                            ELSE list_entries(models.items, idx, urls[idx + 1]) \o rest.list]

merge_models_lists(model_lists, urls) == merge_from(model_lists, urls, 0)

\* The synthetic entries get_all_models appends; two of them carry urlIdx 0.
synthetic(id, urlIdx) == [id |-> id, name |-> id, owned_by |-> "openai", urlIdx |-> urlIdx]

moonshot_models ==
    << synthetic(ID_moonshot_v1_8k, {0}),
       synthetic(ID_moonshot_v1_32k, {}),
       synthetic(ID_moonshot_v1_64k, {}) >>

qianfan_models ==
    << synthetic(ID_ERNIE_4_0_8K, {0}),
       synthetic(ID_ERNIE_4_0_8K_Preview, {}),
       synthetic(ID_ERNIE_4_0_8K_Preview_0518, {}),
       synthetic(ID_ERNIE_4_0_8K_Latest, {}),
       synthetic(ID_ERNIE_4_0_8K_0329, {}),
       synthetic(ID_ERNIE_4_0_8K_0613, {}),
       synthetic(ID_ERNIE_4_0_Turbo_8K, {}),
       synthetic(ID_ERNIE_4_0_Turbo_8K_Preview, {}),
       synthetic(ID_ERNIE_3_5_8K, {}) >>

\* A catalog in which the first entry with an id is the one kept.
RECURSIVE models_by_id_first_wins(_)
models_by_id_first_wins(data) ==
    IF data = <<>> THEN <<>>
    ELSE LET rest == models_by_id_first_wins(Tail(data))
             first == Head(data)
         IN  [i \in (DOMAIN rest) \cup {first.id} |->
                 IF i = first.id THEN first ELSE rest[i]]

\* {model["id"]: model for model in models["data"]}: a later entry replaces an
\* earlier one with the same id.
RECURSIVE models_by_id(_)
models_by_id(data) ==
    IF data = <<>> THEN <<>>
    ELSE LET init == models_by_id(SubSeq(data, 1, Len(data) - 1))
             last == data[Len(data)]
         IN  [i \in (DOMAIN init) \cup {last.id} |->
                 IF i = last.id THEN last ELSE init[i]]

\* A fast path taken only when the API is disabled and the single key is empty.
fast_path_both(enable, keys) ==
    (Len(keys) = 1 /\ keys[1] = "") /\ ~Truthy(enable)

\* The fast-path test of get_all_models.
fast_path(enable, keys) ==
    (Len(keys) = 1 /\ keys[1] = "") \/ ~Truthy(enable)

\* A reconciliation that pads a short key list and leaves a long one as it is.
reconcile_keys_pad_only(keys, urls) ==
    IF Len(keys) < Len(urls)
        THEN keys \o [i \in 1..(Len(urls) - Len(keys)) |-> ""]
        ELSE keys

\* The reconciliation of the key list with the URL list.
reconcile_keys(keys, urls) ==
    IF Len(keys) # Len(urls)
        THEN IF Len(keys) > Len(urls)
                 THEN SubSeq(keys, 1, Len(urls))
                 ELSE keys \o [i \in 1..(Len(urls) - Len(keys)) |-> ""]
        ELSE keys

\* The tasks of the fan-out: one fetch_url per URL, with the key at the same index.
fan_out(urls, keys) == [i \in 1..Len(urls) |-> [url |-> urls[i], key |-> keys[i]]]

NoPass ==
    [pc |-> "none", fast |-> FALSE, enable0 |-> "None", keys0 |-> <<>>, urls0 |-> <<>>,
     tasks |-> <<>>,
     responses |-> <<>>, raised |-> FALSE, data |-> <<>>]

\* app.state.MODELS = {} at start-up: no gather behind the catalog.
NoOrigin == [set |-> FALSE, responses |-> <<>>, urls |-> <<>>]

\* A request that has not arrived.
NotArrived ==
    [h |-> "none", at |-> "none", found_empty |-> FALSE, refresh |-> NoPass, update |-> NoPass,
     seen |-> {}]

NoConcurrency ==
    /\ requests = [i \in 1..MaxRequests |-> NotArrived]
    /\ origin = NoOrigin

\* get_all_models up to its await: on the fast path the whole call, otherwise
\* the reconciliation and the creation of the tasks. enable0, keys0 and urls0
\* are the configuration the call found.
get_all_models_begin(enable, urls, keys) ==
    LET found == [NoPass EXCEPT !.enable0 = enable, !.keys0 = keys, !.urls0 = urls]
    IN  IF fast_path(enable, keys)
            THEN [found EXCEPT !.pc = "done", !.fast = TRUE]
            ELSE [found EXCEPT !.pc = "gather",
                               !.tasks = fan_out(urls, reconcile_keys(keys, urls))]

\* A get_all_models that would reconcile the key list before its fast-path test.
keys_after_always(enable, urls, keys) == reconcile_keys(keys, urls)

\* The key list get_all_models leaves.
keys_after(enable, urls, keys) ==
    IF fast_path(enable, keys) THEN keys ELSE reconcile_keys(keys, urls)

\* A get_all_models that would store the catalog before the synthetic entries
\* are appended.
get_all_models_end_unfinished(responses, urls, models) ==
    LET lists == [i \in 1..Len(responses) |-> response_models(responses[i])]
        merged == merge_models_lists([i \in 1..Len(lists) |-> lists[i].models], urls)
        data == merged.list \o moonshot_models \o qianfan_models
    IN  IF (\E i \in 1..Len(lists) : lists[i].raised) \/ merged.raised
            THEN [raised |-> TRUE, data |-> <<>>, MODELS |-> models]
            ELSE [raised |-> FALSE, data |-> data, MODELS |-> models_by_id(merged.list)]

\* get_all_models from the return of asyncio.gather on: the model lists of the
\* responses, merged against the URL list as it is now, then the synthetic
\* entries. An exception leaves the catalog as it was.
get_all_models_end(responses, urls, models) ==
    LET lists == [i \in 1..Len(responses) |-> response_models(responses[i])]
        merged == merge_models_lists([i \in 1..Len(lists) |-> lists[i].models], urls)
        data == merged.list \o moonshot_models \o qianfan_models
    IN  IF (\E i \in 1..Len(lists) : lists[i].raised) \/ merged.raised
            THEN [raised |-> TRUE, data |-> <<>>, MODELS |-> models]
            ELSE [raised |-> FALSE, data |-> data, MODELS |-> models_by_id(data)]

\* ------------------------------------------- model listing by explicit index

\* The callers' roles, and a configuration without the model filter.
UserRoles == {"user", "admin"}
NoModelFilter == ENABLE_MODEL_FILTER = FALSE /\ MODEL_FILTER_LIST = {}

\* The list an optional holds.
the_list(opt) == CHOOSE l \in opt : TRUE

\* What requests.request gives get_models: no response (it raised), or a
\* response with its status code and its body: whether it decodes as JSON,
\* whether the object has "error", and its "data" list if it has one.
NoResponse == [status_code |-> 0, decodes |-> FALSE, has_error |-> FALSE, data |-> {}]
JsonBody(has_error, data) == [decodes |-> TRUE, has_error |-> has_error, data |-> data]
Undecodable == [decodes |-> FALSE, has_error |-> FALSE, data |-> {}]

IndexedBodies ==
    {Undecodable, JsonBody(TRUE, {}), JsonBody(FALSE, {})}
        \cup {JsonBody(FALSE, {l}) : l \in ModelLists}

IndexedResponses ==
    {NoResponse}
        \cup {[status_code |-> status, decodes |-> body.decodes, has_error |-> body.has_error,
               data |-> body.data] : status \in {200, 404}, body \in IndexedBodies}

\* A few of them, for the runs that follow one request with another.
IndexedAnswers ==
    {NoResponse,
     [status_code |-> 404, decodes |-> TRUE, has_error |-> TRUE, data |-> {}],
     [status_code |-> 200, decodes |-> TRUE, has_error |-> FALSE, data |-> {<<BackendModels[2]>>}]}

NoListing ==
    [op |-> "none", role |-> "", url_idx |-> {}, url |-> <<>>, r |-> NoResponse, issued |-> 0,
     kind |-> "none", status |-> 0, detail |-> "", data |-> {}]

\* bool(r) of a requests.Response: r.ok, false for a status of 400 and more.
response_ok(r) == r.status_code # 0 /\ r.status_code < 400

\* The except block of get_models: the detail, and r.status_code if r else 500.
listing_error(r) ==
    [kind |-> "error",
     status |-> IF response_ok(r) THEN r.status_code ELSE 500,
     detail |-> IF r.status_code = 0 THEN "Open WebUI: Server Connection Error"
                ELSE IF ~r.decodes THEN "External: exception"
                ELSE IF r.has_error THEN "External: error"
                ELSE "Open WebUI: Server Connection Error",
     data |-> {}]

\* filter(lambda model: "gpt" in model["id"], response_data["data"])
RECURSIVE filter_gpt(_)
filter_gpt(models) ==
    IF models = <<>> THEN <<>>
    ELSE IF Contains(S_gpt, Head(models).id)
        THEN <<Head(models)>> \o filter_gpt(Tail(models))
        ELSE filter_gpt(Tail(models))

\* The try block of get_models after the request: raise_for_status, r.json(),
\* the filter when the URL has "api.openai.com" (KeyError without "data").
indexed_listing(url, r) ==
    IF r.status_code = 0 \/ r.status_code >= 400 \/ ~r.decodes THEN listing_error(r)
    ELSE IF Contains(S_api_openai_com, url)
        THEN IF r.data = {} THEN listing_error(r)
             ELSE [kind |-> "data", status |-> 200, detail |-> "",
                   data |-> {filter_gpt(the_list(r.data))}]
        ELSE [kind |-> "data", status |-> 200, detail |-> "", data |-> r.data]

\* ------------------------------------------------------------ the handlers

Handlers == {"get_models", "get_models_idx", "update_openai_urls", "update_openai_key", "update_config"}

Idle == [h |-> "none", at |-> "idle"]

\* No request has ended since the one in flight arrived.
NoCall == [op |-> "none", error |-> ""]

\* The request in flight waits for the gather of its pass, and every task is done.
gathered == pass.pc = "gather" /\ Len(pass.responses) = Len(pass.tasks)

\* The pass after its gather, as get_all_models_end leaves it.
ended(e) == [pass EXCEPT !.pc = "done", !.raised = e.raised, !.data = e.data]

\* The http middleware on a new request for handler h: with an empty catalog it
\* calls get_all_models first, and routes to the handler after it.
check_url(h) ==
    /\ request = Idle
    /\ IF DOMAIN MODELS = {}
          THEN /\ pass' = get_all_models_begin(ENABLE_OPENAI_API, OPENAI_API_BASE_URLS, OPENAI_API_KEYS)
               /\ OPENAI_API_KEYS' = keys_after(ENABLE_OPENAI_API, OPENAI_API_BASE_URLS, OPENAI_API_KEYS)
               /\ request' = [h |-> h, at |-> IF pass'.pc = "done" THEN "handler" ELSE "middleware"]
          ELSE /\ pass' = NoPass
               /\ request' = [h |-> h, at |-> "handler"]
               /\ UNCHANGED OPENAI_API_KEYS
    /\ call' = NoCall
    /\ listing' = NoListing
    /\ UNCHANGED <<ENABLE_OPENAI_API, OPENAI_API_BASE_URLS, MODELS>>
    /\ UNCHANGED <<pxVars, sse, normVars, filterVars, concVars>>

\* fetch_url: one task of the gather ends, with None for any exception.
fetch_url(response) ==
    /\ pass.pc = "gather"
    /\ Len(pass.responses) < Len(pass.tasks)
    /\ pass' = [pass EXCEPT !.responses = Append(@, response)]
    /\ UNCHANGED <<ENABLE_OPENAI_API, OPENAI_API_BASE_URLS, OPENAI_API_KEYS, MODELS, request, call>>
    /\ UNCHANGED <<listing, pxVars, sse, normVars, filterVars, concVars>>

\* The middleware's get_all_models returns (or raises) and call_next runs.
check_url_resume ==
    /\ request.at = "middleware"
    /\ gathered
    /\ LET e == get_all_models_end(pass.responses, OPENAI_API_BASE_URLS, MODELS)
       IN  /\ pass' = ended(e)
           /\ MODELS' = e.MODELS
           /\ IF e.raised
                 THEN /\ request' = Idle
                      /\ call' = [op |-> "check_url", error |-> "TypeError"]
                 ELSE /\ request' = [request EXCEPT !.at = "handler"]
                      /\ UNCHANGED call
    /\ UNCHANGED <<ENABLE_OPENAI_API, OPENAI_API_BASE_URLS, OPENAI_API_KEYS>>
    /\ UNCHANGED <<listing, pxVars, sse, normVars, filterVars, concVars>>

\* POST /config/update
update_config(enable) ==
    /\ request = [h |-> "update_config", at |-> "handler"]
    /\ ENABLE_OPENAI_API' = enable
    /\ request' = Idle
    /\ pass' = NoPass
    /\ call' = [op |-> "update_config", error |-> ""]
    /\ UNCHANGED <<OPENAI_API_BASE_URLS, OPENAI_API_KEYS, MODELS>>
    /\ UNCHANGED <<listing, pxVars, sse, normVars, filterVars, concVars>>

\* POST /urls/update: get_all_models over the stored lists, then the new URL list.
update_openai_urls(urls) ==
    /\ request = [h |-> "update_openai_urls", at |-> "handler"]
    /\ pass' = get_all_models_begin(ENABLE_OPENAI_API, OPENAI_API_BASE_URLS, OPENAI_API_KEYS)
    /\ OPENAI_API_KEYS' = keys_after(ENABLE_OPENAI_API, OPENAI_API_BASE_URLS, OPENAI_API_KEYS)
    /\ IF pass'.pc = "done"
          THEN /\ OPENAI_API_BASE_URLS' = urls
               /\ request' = Idle
               /\ call' = [op |-> "update_openai_urls", error |-> ""]
          ELSE /\ request' = [request EXCEPT !.at = "awaiting"]
               /\ UNCHANGED <<OPENAI_API_BASE_URLS, call>>
    /\ UNCHANGED <<ENABLE_OPENAI_API, MODELS>>
    /\ UNCHANGED <<listing, pxVars, sse, normVars, filterVars, concVars>>

update_openai_urls_resume(urls) ==
    /\ request = [h |-> "update_openai_urls", at |-> "awaiting"]
    /\ gathered
    /\ LET e == get_all_models_end(pass.responses, OPENAI_API_BASE_URLS, MODELS)
       IN  /\ pass' = ended(e)
           /\ MODELS' = e.MODELS
           /\ OPENAI_API_BASE_URLS' = IF e.raised THEN OPENAI_API_BASE_URLS ELSE urls
           /\ call' = [op |-> "update_openai_urls", error |-> IF e.raised THEN "TypeError" ELSE ""]
    /\ request' = Idle
    /\ UNCHANGED <<ENABLE_OPENAI_API, OPENAI_API_KEYS>>
    /\ UNCHANGED <<listing, pxVars, sse, normVars, filterVars, concVars>>

\* POST /keys/update
update_openai_key(keys) ==
    /\ request = [h |-> "update_openai_key", at |-> "handler"]
    /\ OPENAI_API_KEYS' = keys
    /\ request' = Idle
    /\ pass' = NoPass
    /\ call' = [op |-> "update_openai_key", error |-> ""]
    /\ UNCHANGED <<ENABLE_OPENAI_API, OPENAI_API_BASE_URLS, MODELS>>
    /\ UNCHANGED <<listing, pxVars, sse, normVars, filterVars, concVars>>

\* A filter applied whatever the caller's role is.
RECURSIVE role_filter_everyone(_, _, _, _)
role_filter_everyone(enable, role, allowed, data) ==
    IF ~enable \/ data = <<>> THEN data
    ELSE IF Head(data).id \in allowed
        THEN <<Head(data)>> \o role_filter_everyone(enable, role, allowed, Tail(data))
        ELSE role_filter_everyone(enable, role, allowed, Tail(data))

\* The filter of get_models: with ENABLE_MODEL_FILTER and the role "user", the
\* models whose id is in MODEL_FILTER_LIST, in their order; the list otherwise.
RECURSIVE role_filter(_, _, _, _)
role_filter(enable, role, allowed, data) ==
    IF ~(enable /\ role = "user") \/ data = <<>> THEN data
    ELSE IF Head(data).id \in allowed
        THEN <<Head(data)>> \o role_filter(enable, role, allowed, Tail(data))
        ELSE role_filter(enable, role, allowed, Tail(data))

\* What get_models returns for the list get_all_models gave it.
listed_models(role, data) ==
    [NoListing EXCEPT !.op = "get_models", !.role = role, !.kind = "data", !.status = 200,
                      !.data = {role_filter(ENABLE_MODEL_FILTER, role, MODEL_FILTER_LIST, data)}]

\* GET /models: get_all_models, then the role filter on the list it returns.
get_models(role) ==
    /\ request = [h |-> "get_models", at |-> "handler"]
    /\ pass' = get_all_models_begin(ENABLE_OPENAI_API, OPENAI_API_BASE_URLS, OPENAI_API_KEYS)
    /\ OPENAI_API_KEYS' = keys_after(ENABLE_OPENAI_API, OPENAI_API_BASE_URLS, OPENAI_API_KEYS)
    /\ IF pass'.pc = "done"
          THEN /\ request' = Idle
               /\ call' = [op |-> "get_models", error |-> ""]
               /\ listing' = listed_models(role, <<>>)
          ELSE /\ request' = [request EXCEPT !.at = "awaiting"]
               /\ listing' = [NoListing EXCEPT !.op = "get_models", !.role = role]
               /\ UNCHANGED call
    /\ UNCHANGED <<ENABLE_OPENAI_API, OPENAI_API_BASE_URLS, MODELS>>
    /\ UNCHANGED <<pxVars, sse, normVars, filterVars, concVars>>

get_models_resume ==
    /\ request = [h |-> "get_models", at |-> "awaiting"]
    /\ gathered
    /\ LET e == get_all_models_end(pass.responses, OPENAI_API_BASE_URLS, MODELS)
       IN  /\ pass' = ended(e)
           /\ MODELS' = e.MODELS
           /\ call' = [op |-> "get_models", error |-> IF e.raised THEN "TypeError" ELSE ""]
           /\ listing' =
                 IF e.raised
                     THEN [listing EXCEPT !.kind = "error", !.status = 500,
                                          !.detail = "Internal Server Error"]
                     ELSE listed_models(listing.role, e.data)
    /\ request' = Idle
    /\ UNCHANGED <<ENABLE_OPENAI_API, OPENAI_API_BASE_URLS, OPENAI_API_KEYS>>
    /\ UNCHANGED <<pxVars, sse, normVars, filterVars, concVars>>

\* The lookups url = URLS[url_idx], key = KEYS[url_idx] at the head of get_models
\* with an index.
indexed_lookup(urls, keys, url_idx) ==
    IF url_idx >= Len(urls) \/ url_idx >= Len(keys) THEN "IndexError" ELSE ""

\* GET /models/{url_idx}: the two indexed lookups, then one request to that
\* backend; an IndexError of the lookups is not caught.
get_models_idx(url_idx, r) ==
    /\ request = [h |-> "get_models_idx", at |-> "handler"]
    /\ LET error == indexed_lookup(OPENAI_API_BASE_URLS, OPENAI_API_KEYS, url_idx)
       IN  /\ call' = [op |-> "get_models_idx", error |-> error]
           /\ listing' =
                 IF error # ""
                     THEN [NoListing EXCEPT !.op = "get_models_idx", !.url_idx = {url_idx},
                                            !.kind = "error", !.status = 500,
                                            !.detail = "Internal Server Error"]
                     ELSE LET url == OPENAI_API_BASE_URLS[url_idx + 1]
                              got == indexed_listing(url, r)
                          IN  [op |-> "get_models_idx", role |-> "", url_idx |-> {url_idx}, url |-> url,
                               r |-> r, issued |-> 1, kind |-> got.kind,
                               status |-> got.status, detail |-> got.detail,
                               data |-> got.data]
    /\ request' = Idle
    /\ pass' = NoPass
    /\ UNCHANGED <<ENABLE_OPENAI_API, OPENAI_API_BASE_URLS, OPENAI_API_KEYS, MODELS>>
    /\ UNCHANGED <<pxVars, sse, normVars, filterVars, concVars>>

\* --------------------------------- generate_chat_completion: the payload

\* The bound on the messages of an inbound request.
MaxMessages == 2

\* A Python number: its type and its value in tenths.
PyNumber(t, tenths) == [t |-> t, v |-> tenths]

\* float(x) and int(x): int truncates toward zero.
float(x) == PyNumber("float", x.v)
int(x) == PyNumber("int", IF x.v >= 0 THEN (x.v \div 10) * 10 ELSE -(((-x.v) \div 10) * 10))

\* The value an optional holds.
the(opt) == CHOOSE x \in opt : TRUE

\* Python's truth of an optional number: not None and not zero.
truthy_number(opt) == opt # {} /\ the(opt).v # 0

\* model_id.lower().startswith(prefix)
lower(token) == IF token = "ERNIE" THEN "ernie" ELSE IF token = "LeAgent" THEN "leagent" ELSE token
\* A prefix test that forgets lower().
startswith_exact(model_id, prefix) == model_id # <<>> /\ model_id[1] = prefix

startswith_lower(model_id, prefix) == model_id # <<>> /\ lower(model_id[1]) = prefix

\* bytes(stop, "utf-8").decode("unicode_escape"): an escaped line feed becomes one.
unicode_escape(stop) == IF stop = "\\n" THEN "\n" ELSE stop

\* prompt_template(system, user_name=..., user_location=...): the template
\* applied to the user's name and location, location None without user.info.
prompt_template(system, u) ==
    [template |-> system,
     user_name |-> u.name,
     user_location |-> IF u.info = {} THEN {} ELSE the(u.info).location]

\* A message content: the rendered templates put before it, and its text.
Content(text) == [rendered |-> <<>>, text |-> text]

\* system + message["content"]
prepend(system, content) == [content EXCEPT !.rendered = <<system>> \o @]

\* The index of the first message with role "system", 0 when the loop ends
\* without a break.
first_system(messages) ==
    IF \E i \in 1..Len(messages) : messages[i].role = "system"
        THEN CHOOSE i \in 1..Len(messages) :
                /\ messages[i].role = "system"
                /\ \A j \in 1..(i - 1) : messages[j].role # "system"
        ELSE 0

\* Lines 634-648: nothing for an absent or empty list; the template before the
\* first system message's content, or a new system message at position 0.
inject_system(pl, system) ==
    IF pl.messages = {} \/ the(pl.messages) = <<>> THEN pl
    ELSE LET messages == the(pl.messages)
             i == first_system(messages)
         IN  IF i # 0
                 THEN [pl EXCEPT !.messages =
                          {[messages EXCEPT ![i].content = prepend(system, @)]}]
                 ELSE [pl EXCEPT !.messages =
                          {<<[role |-> "system", content |-> prepend(system, Content(""))]>>
                               \o messages}]

\* Lines 592-617: temperature when not None, as a float; top_p, max_tokens and
\* frequency_penalty when true, as an int; seed when true; stop when true.
override_params(pl, params) ==
    [pl EXCEPT
        !.temperature = IF params.temperature # {} THEN {float(the(params.temperature))} ELSE @,
        !.top_p = IF truthy_number(params.top_p) THEN {int(the(params.top_p))} ELSE @,
        !.max_tokens = IF truthy_number(params.max_tokens) THEN {int(the(params.max_tokens))} ELSE @,
        !.frequency_penalty =
            IF truthy_number(params.frequency_penalty)
                THEN {int(the(params.frequency_penalty))} ELSE @,
        !.seed = IF truthy_number(params.seed) THEN params.seed ELSE @,
        !.stop = IF params.stop # {} /\ the(params.stop) # <<>>
                     THEN {[i \in 1..Len(the(params.stop)) |-> unicode_escape(the(params.stop)[i])]}
                     ELSE @]

\* Lines 585-648: the payload after the profile, if there is one, has been applied.
apply_model_info(pl, info, u) ==
    IF info = {} THEN pl
    ELSE LET mi == the(info)
             p1 == IF mi.base_model_id # {} THEN [pl EXCEPT !.model = the(mi.base_model_id)] ELSE pl
             p2 == override_params(p1, mi.params)
         IN  IF mi.params.system # {} /\ the(mi.params.system) # ""
                 THEN inject_system(p2, prompt_template(the(mi.params.system), u))
                 ELSE p2

\* Lines 666-668: max_tokens 4000 for "gpt-4-vision-preview" when the payload has none.
vision_max_tokens(pl) ==
    IF pl.model = ID_gpt_4_vision_preview /\ pl.max_tokens = {}
        THEN [pl EXCEPT !.max_tokens = {PyNumber("int", 40000)}]
        ELSE pl

ReservedPrefixes == {"leagent", "moonshot", "ernie"}

NoPayload ==
    [model |-> <<>>, temperature |-> {}, top_p |-> {}, max_tokens |-> {},
     frequency_penalty |-> {}, seed |-> {}, stop |-> {}, messages |-> {}]
NoUser == [name |-> "", info |-> {}]

\* No specialized handler has run.
NoSse == [handler |-> "none", pc |-> "none", fed |-> 0, emitted |-> <<>>]

NoInbound == form_data = NoPayload /\ model_info = {} /\ user = NoUser /\ payload = NoPayload

\* ------------------------------------------- the outbound call and its relay

\* The bound on the bytes a backend streams in one response.
MaxStream == 3

S_text_event_stream == <<"text/event-stream">>

\* The headers of a backend response, in the order received; a name can repeat.
H_ContentType(v) == [name |-> "Content-Type", value |-> v]
H_SetCookie(v) == [name |-> "Set-Cookie", value |-> v]
HeaderLists ==
    { <<>>,
      <<H_ContentType(<<"application/json">>)>>,
      <<H_ContentType(<<"text/event-stream">>)>>,
      <<H_ContentType(<<"text/event-stream", "; charset=utf-8">>), H_SetCookie(<<"a=1">>)>>,
      <<H_ContentType(<<"text/event-stream">>), H_SetCookie(<<"a=1">>), H_SetCookie(<<"b=2">>)>> }

Statuses == {200, 404, 500}

\* What r.json() finds: an object without "error", an object whose "error" has
\* a "message", an object with another "error", or a body that does not decode.
Bodies == {"object", "error_message", "error_plain", "undecodable"}

BackendResponses == [status : Statuses, headers : HeaderLists, body : Bodies]

NoResp == [status |-> 0, headers |-> <<>>, body |-> "none"]
NoOut == [kind |-> "none", status |-> 0, headers |-> <<>>, detail |-> ""]
NoStream == [buffer |-> <<>>, eof |-> FALSE, received |-> <<>>, delivered |-> <<>>]
NoCallOut ==
    [handler |-> "none", pc |-> "idle", session |-> "None", r |-> "None",
     streaming |-> FALSE, opened |-> 0, issued |-> 0, r_closes |-> 0, s_closes |-> 0,
     cleanups |-> 0]

NoOutbound == px = NoCallOut /\ resp = NoResp /\ out = NoOut /\ stream = NoStream

\* r.headers.get(name, ""): the first value received for the name.
headers_get(headers, name) ==
    IF \E i \in 1..Len(headers) : headers[i].name = name
        THEN headers[CHOOSE i \in 1..Len(headers) :
                        /\ headers[i].name = name
                        /\ \A j \in 1..(i - 1) : headers[j].name # name].value
        ELSE <<>>

\* dict(r.headers): one item per name, in the order of first appearance, with
\* the value r.headers[name] gives, the first one.
RECURSIVE dict_from(_, _)
dict_from(headers, i) ==
    IF i > Len(headers) THEN <<>>
    ELSE IF \E j \in 1..(i - 1) : headers[j].name = headers[i].name
        THEN dict_from(headers, i + 1)
        ELSE <<[name |-> headers[i].name, value |-> headers_get(headers, headers[i].name)]>>
                 \o dict_from(headers, i + 1)

dict(headers) == dict_from(headers, 1)

\* r.raise_for_status() raises.
raise_for_status(status) == status >= 400

\* "text/event-stream" in r.headers.get("Content-Type", "")
is_sse(headers) == Contains(S_text_event_stream, headers_get(headers, "Content-Type"))

\* A finally block that forgets the streaming flag.
finally_block_always(p) ==
    IF p.session # "None"
        THEN [p EXCEPT !.r = IF p.r # "None" THEN "closed" ELSE @,
                       !.r_closes = IF p.r # "None" THEN @ + 1 ELSE @,
                       !.session = "closed",
                       !.s_closes = @ + 1]
        ELSE p

\* The finally block: if not streaming and session: if r: r.close(); await session.close()
finally_block(p) ==
    IF ~p.streaming /\ p.session # "None"
        THEN [p EXCEPT !.r = IF p.r # "None" THEN "closed" ELSE @,
                       !.r_closes = IF p.r # "None" THEN @ + 1 ELSE @,
                       !.session = "closed",
                       !.s_closes = @ + 1]
        ELSE p

\* An except block that falls back to the generic message for a body that
\* does not decode.
error_detail_generic(body) ==
    CASE body = "error_message" -> "External: message"
      [] body = "error_plain" -> "External: error"
      [] body = "object" -> "Open WebUI: Server Connection Error"
      [] body = "undecodable" -> "Open WebUI: Server Connection Error"

\* The detail the except block builds from res = await r.json().
error_detail(body) ==
    CASE body = "error_message" -> "External: message"
      [] body = "error_plain" -> "External: error"
      [] body = "object" -> "Open WebUI: Server Connection Error"
      [] body = "undecodable" -> "External: exception"

\* The calls that have run to their end, and those whose relay has.
Returned == {"returned", "raised"}
Relayed == {"cleaned", "aborted"}

\* The states a new call can start from: the previous one is over.
Failed == {"dispatched", "failed"}

\* r = None, session = None, streaming = False, then the session is opened and
\* the one request issued: the call awaits session.request.
begin_outbound(handler) ==
    [NoCallOut EXCEPT !.handler = handler, !.pc = "request", !.session = "open",
                      !.opened = 1, !.issued = 1]

\* An exception before the try block: no session, the framework answers 500.
fails_before_outbound(handler) == [NoCallOut EXCEPT !.handler = handler, !.pc = "failed"]
InternalServerError == [NoOut EXCEPT !.kind = "error", !.status = 500, !.detail = "Internal Server Error"]

\* The handler a reserved prefix selects.
specialized_handler(model_id) ==
    CASE startswith_lower(model_id, "leagent") -> "handle_leagent_request"
      [] startswith_lower(model_id, "moonshot") -> "handle_moonshot_request"
      [] startswith_lower(model_id, "ernie") -> "handle_qianfan_request"

\* app.state.MODELS[payload.get("model")]["urlIdx"], then the URL and the key at
\* that index: does any of the three lookups raise.
lookup_raises(pl, models, urls, keys) ==
    \/ pl.model \notin DOMAIN models
    \/ models[pl.model].urlIdx = {}
    \/ the(models[pl.model].urlIdx) >= Len(urls)
    \/ the(models[pl.model].urlIdx) >= Len(keys)

\* POST /chat/completions up to the await of session.request: the dispatch on
\* the reserved prefixes, the profile's overrides, the catalog lookup.
generate_chat_completion ==
    /\ px.pc \in {"idle"} \cup Returned \cup Relayed \cup Failed
    /\ IF \E prefix \in ReservedPrefixes : startswith_lower(form_data.model, prefix)
          THEN /\ payload' = form_data
               /\ px' = [NoCallOut EXCEPT !.handler = specialized_handler(form_data.model),
                                          !.pc = "dispatched"]
               /\ out' = NoOut
          ELSE LET pl == apply_model_info(form_data, model_info, user)
               IN  IF lookup_raises(pl, MODELS, OPENAI_API_BASE_URLS, OPENAI_API_KEYS)
                       THEN /\ payload' = pl
                            /\ px' = fails_before_outbound("generate_chat_completion")
                            /\ out' = InternalServerError
                       ELSE /\ payload' = vision_max_tokens(pl)
                            /\ px' = begin_outbound("generate_chat_completion")
                            /\ out' = NoOut
    /\ resp' = NoResp
    /\ stream' = NoStream
    /\ UNCHANGED <<aggVars, sse, form_data, model_info, user>>

\* Any other path, up to the await of session.request: the backend at index 0.
proxy ==
    /\ px.pc \in {"idle"} \cup Returned \cup Relayed \cup Failed
    /\ IF Len(OPENAI_API_BASE_URLS) = 0 \/ Len(OPENAI_API_KEYS) = 0
          THEN /\ px' = fails_before_outbound("proxy")
               /\ out' = InternalServerError
          ELSE /\ px' = begin_outbound("proxy")
               /\ out' = NoOut
    /\ resp' = NoResp
    /\ stream' = NoStream
    /\ UNCHANGED <<aggVars, sse, normVars>>

\* session.request raises (no connection, time-out): r is still None; the except
\* block raises HTTPException(500) and the finally block closes the session.
connection_error ==
    /\ px.pc = "request"
    /\ px' = finally_block([px EXCEPT !.pc = "raised"])
    /\ out' = [NoOut EXCEPT !.kind = "error", !.status = 500,
                            !.detail = "Open WebUI: Server Connection Error"]
    /\ UNCHANGED <<resp, stream, aggVars, sse, normVars>>

\* session.request returns r: raise_for_status, then the event-stream test.
session_request(response) ==
    /\ px.pc = "request"
    /\ resp' = response
    /\ IF raise_for_status(response.status)
          THEN /\ px' = [px EXCEPT !.r = "open", !.pc = "except"]
               /\ UNCHANGED out
          ELSE IF is_sse(response.headers)
              THEN /\ px' = finally_block([px EXCEPT !.r = "open", !.streaming = TRUE,
                                                     !.pc = "streaming"])
                   /\ out' = [NoOut EXCEPT !.kind = "stream", !.status = response.status,
                                           !.headers = dict(response.headers)]
              ELSE /\ px' = [px EXCEPT !.r = "open", !.pc = "json"]
                   /\ UNCHANGED out
    /\ UNCHANGED <<stream, aggVars, sse, normVars>>

\* response_data = await r.json(): returned as it is, or the except block.
r_json ==
    /\ px.pc = "json"
    /\ IF resp.body # "undecodable"
          THEN /\ px' = finally_block([px EXCEPT !.pc = "returned"])
               /\ out' = [NoOut EXCEPT !.kind = "json", !.status = 200]
          ELSE /\ px' = [px EXCEPT !.pc = "except"]
               /\ UNCHANGED out
    /\ UNCHANGED <<resp, stream, aggVars, sse, normVars>>

\* The except block with r set: res = await r.json(), the detail, the
\* HTTPException with r.status, and the finally block.
except_block ==
    /\ px.pc = "except"
    /\ px' = finally_block([px EXCEPT !.pc = "raised"])
    /\ out' = [NoOut EXCEPT !.kind = "error", !.status = resp.status,
                            !.detail = error_detail(resp.body)]
    /\ UNCHANGED <<resp, stream, aggVars, sse, normVars>>

\* The backend sends one more byte of the event stream into r.content.
backend_sends(b) ==
    /\ px.pc = "streaming"
    /\ ~stream.eof
    /\ Len(stream.received) < MaxStream
    /\ stream' = [stream EXCEPT !.received = Append(@, b), !.buffer = Append(@, b)]
    /\ UNCHANGED <<px, resp, out, aggVars, sse, normVars>>

\* The backend ends the response.
backend_eof ==
    /\ px.pc = "streaming"
    /\ ~stream.eof
    /\ stream' = [stream EXCEPT !.eof = TRUE]
    /\ UNCHANGED <<px, resp, out, aggVars, sse, normVars>>

\* The line r.content yields next: up to the first line feed, or, at the end of
\* the response, what is left.
next_line(buffer) ==
    IF \E i \in 1..Len(buffer) : buffer[i] = "\n"
        THEN SubSeq(buffer, 1, CHOOSE i \in 1..Len(buffer) :
                                  /\ buffer[i] = "\n"
                                  /\ \A j \in 1..(i - 1) : buffer[j] # "\n")
        ELSE buffer

\* StreamingResponse iterates r.content: one line is read and sent to the caller.
relay_line ==
    /\ px.pc = "streaming"
    /\ stream.buffer # <<>>
    /\ stream.eof \/ \E i \in 1..Len(stream.buffer) : stream.buffer[i] = "\n"
    /\ LET line == next_line(stream.buffer)
       IN  stream' = [stream EXCEPT
                         !.buffer = SubSeq(@, Len(line) + 1, Len(@)),
                         !.delivered = @ \o line]
    /\ UNCHANGED <<px, resp, out, aggVars, sse, normVars>>

\* r.content is exhausted: the response is complete and the background task is due.
relay_end ==
    /\ px.pc = "streaming"
    /\ stream.eof /\ stream.buffer = <<>>
    /\ px' = [px EXCEPT !.pc = "background"]
    /\ out' = [out EXCEPT !.kind = "stream_complete"]
    /\ UNCHANGED <<resp, stream, aggVars, sse, normVars>>

\* The caller disconnects: the copying is cancelled and the background task is due.
client_disconnect ==
    /\ px.pc = "streaming"
    /\ px' = [px EXCEPT !.pc = "background"]
    /\ out' = [out EXCEPT !.kind = "stream_cancelled"]
    /\ UNCHANGED <<resp, stream, aggVars, sse, normVars>>

\* Reading r.content raises (the backend's connection breaks): the exception
\* leaves StreamingResponse before it gets to its background task.
backend_error ==
    /\ px.pc = "streaming"
    /\ ~stream.eof
    /\ px' = [px EXCEPT !.pc = "aborted"]
    /\ out' = [out EXCEPT !.kind = "stream_broken"]
    /\ UNCHANGED <<resp, stream, aggVars, sse, normVars>>

\* The background task: cleanup_response(response = r, session = session).
cleanup_response ==
    /\ px.pc = "background"
    /\ px' = [px EXCEPT !.pc = "cleaned",
                        !.r = IF @ # "None" THEN "closed" ELSE @,
                        !.r_closes = IF px.r # "None" THEN @ + 1 ELSE @,
                        !.session = IF @ # "None" THEN "closed" ELSE @,
                        !.s_closes = IF px.session # "None" THEN @ + 1 ELSE @,
                        !.cleanups = @ + 1]
    /\ UNCHANGED <<resp, out, stream, aggVars, sse, normVars>>

\* A catalog as a pass over one backend listing two models leaves it.
Catalog ==
    get_all_models_end(
        <<PyDictData(<<[id |-> ID_gpt_4, name |-> {}],
                       [id |-> ID_gpt_4_vision_preview, name |-> {}]>>)>>,
        <<OllamaUrl>>, <<>>).MODELS

\* An inbound request for a model, with one user message.
Inbound(model_id) ==
    [NoPayload EXCEPT !.model = model_id,
                      !.messages = {<<[role |-> "user", content |-> Content("hi")]>>}]

Ann == [name |-> "Ann", info |-> {[location |-> {"Paris"}]}]

InitOutbound ==
    /\ ENABLE_OPENAI_API = "True"
    /\ OPENAI_API_BASE_URLS = <<OllamaUrl>>
    /\ OPENAI_API_KEYS = <<"sk-1">>
    /\ MODELS = Catalog
    /\ request = Idle
    /\ pass = NoPass
    /\ call = NoCall
    /\ listing = NoListing
    /\ NoModelFilter
    /\ NoConcurrency
    /\ sse = NoSse
    /\ NoOutbound
    /\ form_data = Inbound(ID_gpt_4)
    /\ model_info = {}
    /\ user = Ann
    /\ payload = NoPayload

NextOutbound ==
    \/ generate_chat_completion
    \/ proxy
    \/ connection_error
    \/ \E response \in BackendResponses : session_request(response)
    \/ r_json
    \/ except_block
    \/ \E b \in {"d", "\n"} : backend_sends(b)
    \/ backend_eof
    \/ relay_line
    \/ relay_end
    \/ client_disconnect
    \/ backend_error
    \/ cleanup_response

Init ==
    /\ ENABLE_OPENAI_API \in {"True", "False"}
    /\ OPENAI_API_BASE_URLS \in UrlLists
    /\ OPENAI_API_KEYS \in KeyLists
    /\ MODELS = <<>>
    /\ request = Idle
    /\ pass = NoPass
    /\ call = NoCall
    /\ listing = NoListing
    /\ NoModelFilter
    /\ NoConcurrency
    /\ NoOutbound
    /\ NoInbound
    /\ sse = NoSse

Next ==
    \/ \E h \in Handlers : check_url(h)
    \/ \E response \in Answers : fetch_url(response)
    \/ check_url_resume
    \/ \E enable \in EnableValues : update_config(enable)
    \/ \E urls \in UrlLists : update_openai_urls(urls)
    \/ \E urls \in UrlLists : update_openai_urls_resume(urls)
    \/ \E keys \in KeyLists : update_openai_key(keys)
    \/ \E role \in UserRoles : get_models(role)
    \/ get_models_resume
    \/ \E url_idx \in 0..MaxUrls : \E r \in IndexedAnswers : get_models_idx(url_idx, r)

vars == <<aggVars, pxVars, normVars, sse>>

\* Requests one after another, each run to its end before the next arrives.
Spec == Init /\ [][Next]_vars

\* One aggregation pass over fully keyed backends, with every answer.
InitPass ==
    /\ ENABLE_OPENAI_API = "True"
    /\ OPENAI_API_BASE_URLS \in UrlLists
    /\ OPENAI_API_KEYS = [i \in 1..Len(OPENAI_API_BASE_URLS) |-> "sk-1"]
    /\ MODELS = <<>>
    /\ request = Idle
    /\ pass = NoPass
    /\ call = NoCall
    /\ listing = NoListing
    /\ NoModelFilter
    /\ NoConcurrency
    /\ NoOutbound
    /\ NoInbound
    /\ sse = NoSse

NextPass ==
    \/ check_url("get_models")
    \/ \E response \in Responses : fetch_url(response)
    \/ check_url_resume

SpecPass == InitPass /\ [][NextPass]_vars

\* The outbound calls of generate_chat_completion and proxy, one after another.
SpecOutbound == InitOutbound /\ [][NextOutbound]_vars

\* The same, where the event loop keeps running the relay and its background
\* task, and a backend that does not break ends its response.
SpecOutboundLive ==
    /\ SpecOutbound
    /\ WF_vars(backend_eof)
    /\ WF_vars(relay_line)
    /\ WF_vars(relay_end)
    /\ WF_vars(cleanup_response)

\* The inputs of the payload pipeline.
Option(S) == {{}} \cup {{x} : x \in S}

Fields == {"temperature", "top_p", "max_tokens", "frequency_penalty", "seed"}

\* 0, 0.9 and 2 in a profile; 0.7 in a request.
ProfileNumbers == {PyNumber("int", 0), PyNumber("float", 9), PyNumber("int", 20)}
InboundNumber == PyNumber("float", 7)

NoParams ==
    [temperature |-> {}, top_p |-> {}, max_tokens |-> {}, frequency_penalty |-> {},
     seed |-> {}, stop |-> {}, system |-> {}]

NumericParams ==
    [temperature : Option(ProfileNumbers), top_p : Option(ProfileNumbers),
     max_tokens : Option(ProfileNumbers), frequency_penalty : Option(ProfileNumbers),
     seed : Option(ProfileNumbers), stop : {{}}, system : {{}}]

Templates == {"", "You are {{USER_NAME}}"}

SystemParams ==
    {[NoParams EXCEPT !.system = system, !.stop = stop] :
        system \in Option(Templates), stop \in Option({<<"\\n">>})}

Roles == {"user", "system"}

MessageLists ==
    {[i \in 1..Len(roles) |-> [role |-> roles[i], content |-> Content(ToString(i))]] :
        roles \in SeqsUpTo(Roles, MaxMessages)}

Users ==
    {[name |-> "Ann", info |-> info] : info \in Option([location : Option({"Paris"})])}

\* A profile with numbers for a request that sets at most one of the fields.
InitParams ==
    /\ model_info \in {{[base_model_id |-> {}, params |-> params]} : params \in NumericParams}
    /\ form_data \in
          UNION {{Inbound(id)} \cup {[Inbound(id) EXCEPT ![f] = {InboundNumber}] : f \in Fields} :
                    id \in {ID_gpt_4, ID_gpt_4_vision_preview}}
    /\ user = Ann

\* A profile, or none, with a system template or none, for a request with any
\* message list or none, for a catalog model, an unknown one, a reserved one.
InitSystem ==
    /\ model_info \in
          {{}} \cup {{[base_model_id |-> base, params |-> params]} :
                        base \in Option({ID_gpt_4}), params \in SystemParams}
    /\ form_data \in
          {[Inbound(id) EXCEPT !.messages = messages] :
              id \in {ID_gpt_4, ID_llama3, ID_moonshot_v1_8k, ID_moonshot_v1_128k,
                      ID_ERNIE_3_5_8K, ID_LeAgent_1},
              messages \in Option(MessageLists)}
    /\ user \in Users

InitNorm ==
    /\ ENABLE_OPENAI_API = "True"
    /\ OPENAI_API_BASE_URLS = <<OllamaUrl>>
    /\ OPENAI_API_KEYS = <<"sk-1">>
    /\ MODELS = Catalog
    /\ request = Idle
    /\ pass = NoPass
    /\ call = NoCall
    /\ listing = NoListing
    /\ NoModelFilter
    /\ NoConcurrency
    /\ sse = NoSse
    /\ NoOutbound
    /\ payload = NoPayload
    /\ InitParams \/ InitSystem

NextNorm == generate_chat_completion

\* One chat-completion request up to its outbound step, for every input.
SpecNorm == InitNorm /\ [][NextNorm]_vars

\* One model-listing request, of the whole catalog or of one backend by its
\* index, over any URL list, the regional OpenAI endpoint included.
FilterUrlLists == SeqsUpTo(UrlUniverse \cup {EuOpenAIUrl}, MaxUrls)

FilterResponses == {PyNone} \cup {PyDictData(l) : l \in ModelLists}

InitFilter ==
    /\ ENABLE_OPENAI_API = "True"
    /\ OPENAI_API_BASE_URLS \in FilterUrlLists
    /\ OPENAI_API_KEYS = [i \in 1..Len(OPENAI_API_BASE_URLS) |-> "sk-1"]
    /\ MODELS = Catalog
    /\ request = Idle
    /\ pass = NoPass
    /\ call = NoCall
    /\ listing = NoListing
    /\ NoModelFilter
    /\ NoConcurrency
    /\ NoOutbound
    /\ NoInbound
    /\ sse = NoSse

NextFilter ==
    \/ \E h \in {"get_models", "get_models_idx"} : call = NoCall /\ check_url(h)
    \/ \E role \in UserRoles : get_models(role)
    \/ \E response \in FilterResponses : fetch_url(response)
    \/ get_models_resume
    \/ \E url_idx \in 0..MaxUrls : \E r \in IndexedResponses : get_models_idx(url_idx, r)

SpecFilter == InitFilter /\ [][NextFilter]_vars

\* Requests that name a backend by index, directly (GET /models/{url_idx}) or
\* through the urlIdx of a catalog entry (POST /chat/completions), over any
\* URL and key lists an administrator can have stored since the catalog was built.
InitIndex ==
    /\ ENABLE_OPENAI_API = "True"
    /\ OPENAI_API_BASE_URLS \in UrlLists
    /\ OPENAI_API_KEYS \in KeyLists
    /\ MODELS = Catalog
    /\ request = Idle
    /\ pass = NoPass
    /\ call = NoCall
    /\ listing = NoListing
    /\ NoModelFilter
    /\ NoConcurrency
    /\ sse = NoSse
    /\ NoOutbound
    /\ form_data = Inbound(ID_gpt_4)
    /\ model_info = {}
    /\ user = Ann
    /\ payload = NoPayload

NextIndex ==
    \/ check_url("get_models_idx")
    \/ \E url_idx \in 0..MaxUrls : \E r \in IndexedAnswers : get_models_idx(url_idx, r)
    \/ generate_chat_completion

SpecIndex == InitIndex /\ [][NextIndex]_vars

\* The calls that reach a backend, up to what the handler returns or raises: a
\* chat completion, a proxied request, a model listing by index.
InitErrors ==
    /\ ENABLE_OPENAI_API = "True"
    /\ OPENAI_API_BASE_URLS = <<OllamaUrl>>
    /\ OPENAI_API_KEYS = <<"sk-1">>
    /\ MODELS = Catalog
    /\ request = Idle
    /\ pass = NoPass
    /\ call = NoCall
    /\ listing = NoListing
    /\ NoModelFilter
    /\ NoConcurrency
    /\ sse = NoSse
    /\ NoOutbound
    /\ form_data = Inbound(ID_gpt_4)
    /\ model_info = {}
    /\ user = Ann
    /\ payload = NoPayload

NextErrors ==
    \/ generate_chat_completion
    \/ proxy
    \/ connection_error
    \/ \E response \in BackendResponses : session_request(response)
    \/ r_json
    \/ except_block
    \/ check_url("get_models_idx")
    \/ \E url_idx \in 0..MaxUrls : \E r \in IndexedResponses : get_models_idx(url_idx, r)

SpecErrors == InitErrors /\ [][NextErrors]_vars

\* One GET /models by a caller of any role, with the model filter enabled or
\* not and a few allow-lists, the API enabled or not, over MaxUrls backends.
AllowLists == {{}, {ID_gpt_4}, {ID_gpt_4, ID_llama3, ID_moonshot_v1_8k}}

InitRoles ==
    /\ ENABLE_OPENAI_API \in {"True", "False"}
    /\ OPENAI_API_BASE_URLS = [i \in 1..MaxUrls |-> OllamaUrl]
    /\ OPENAI_API_KEYS = [i \in 1..MaxUrls |-> "sk-1"]
    /\ MODELS = Catalog
    /\ request = Idle
    /\ pass = NoPass
    /\ call = NoCall
    /\ listing = NoListing
    /\ ENABLE_MODEL_FILTER \in BOOLEAN
    /\ MODEL_FILTER_LIST \in AllowLists
    /\ NoConcurrency
    /\ NoOutbound
    /\ NoInbound
    /\ sse = NoSse

NextRoles ==
    \/ call = NoCall /\ check_url("get_models")
    \/ \E role \in UserRoles : get_models(role)
    \/ \E response \in FilterResponses : fetch_url(response)
    \/ get_models_resume

SpecRoles == InitRoles /\ [][NextRoles]_vars

\* ------------------------------------------------- requests in flight together

ConcHandlers ==
    {"generate_chat_completion", "update_openai_urls", "update_openai_key", "update_config"}

\* What the backends answer a gather with: a value that makes the merge raise,
\* and a list of models.
ConcAnswers == {PyInt, PyDictData(<<BackendModels[2]>>)}

\* The URL lists update_openai_urls sets while other requests are in flight.
ConcUrlLists == {<<>>, <<OllamaUrl>>}

\* A test of the middleware that would leave the refresh to a pass in flight.
check_url_refreshes_coalesced(models, in_flight) ==
    DOMAIN models = {} /\ in_flight = {}

\* The test of the middleware, len(app.state.MODELS) == 0: the passes in flight
\* have no part in it.
check_url_refreshes(models, in_flight) == DOMAIN models = {}

\* A middleware that would start the refresh and not wait for it.
awaits_refresh_never(p) == FALSE

\* await get_all_models() in the middleware: call_next waits for the gather.
awaits_refresh(p) == p.pc = "gather"

\* The requests whose get_all_models waits for its gather.
in_gather ==
    {i \in 1..MaxRequests :
        requests[i].refresh.pc = "gather" \/ requests[i].update.pc = "gather"}

\* The gather behind the catalog after a call of get_all_models has ended.
origin_after(e, responses, urls) ==
    IF e.raised THEN origin ELSE [set |-> TRUE, responses |-> responses, urls |-> urls]

\* check_url for request i, when other requests may be in flight.
arrives(i, h) ==
    /\ requests[i].at = "none"
    /\ \A j \in 1..(i - 1) : requests[j].at # "none"
    /\ LET empty == DOMAIN MODELS = {}
           p == IF check_url_refreshes(MODELS, in_gather)
                   THEN get_all_models_begin(ENABLE_OPENAI_API, OPENAI_API_BASE_URLS, OPENAI_API_KEYS)
                   ELSE NoPass
       IN  /\ requests' = [requests EXCEPT ![i] =
                  [NotArrived EXCEPT !.h = h, !.found_empty = empty, !.refresh = p,
                                     !.at = IF awaits_refresh(p) THEN "middleware" ELSE "handler"]]
           /\ OPENAI_API_KEYS' =
                  IF check_url_refreshes(MODELS, in_gather)
                      THEN keys_after(ENABLE_OPENAI_API, OPENAI_API_BASE_URLS, OPENAI_API_KEYS)
                      ELSE OPENAI_API_KEYS
    /\ UNCHANGED <<ENABLE_OPENAI_API, OPENAI_API_BASE_URLS, MODELS, origin>>
    /\ UNCHANGED <<request, pass, call, listing, filterVars, pxVars, sse, normVars>>

\* One task of the gather of request i's middleware ends.
fetch_url_refresh(i, response) ==
    /\ requests[i].refresh.pc = "gather"
    /\ Len(requests[i].refresh.responses) < Len(requests[i].refresh.tasks)
    /\ requests' = [requests EXCEPT ![i].refresh.responses = Append(@, response)]
    /\ UNCHANGED <<ENABLE_OPENAI_API, OPENAI_API_BASE_URLS, OPENAI_API_KEYS, MODELS, origin>>
    /\ UNCHANGED <<request, pass, call, listing, filterVars, pxVars, sse, normVars>>

\* One task of the gather of request i's update_openai_urls ends.
fetch_url_update(i, response) ==
    /\ requests[i].update.pc = "gather"
    /\ Len(requests[i].update.responses) < Len(requests[i].update.tasks)
    /\ requests' = [requests EXCEPT ![i].update.responses = Append(@, response)]
    /\ UNCHANGED <<ENABLE_OPENAI_API, OPENAI_API_BASE_URLS, OPENAI_API_KEYS, MODELS, origin>>
    /\ UNCHANGED <<request, pass, call, listing, filterVars, pxVars, sse, normVars>>

\* The gather of request i's middleware returns: the merge, the catalog, and
\* call_next; an exception ends the request.
call_next(i) ==
    /\ requests[i].at = "middleware"
    /\ requests[i].refresh.pc = "gather"
    /\ Len(requests[i].refresh.responses) = Len(requests[i].refresh.tasks)
    /\ LET e == get_all_models_end(requests[i].refresh.responses, OPENAI_API_BASE_URLS, MODELS)
       IN  /\ MODELS' = e.MODELS
           /\ origin' = origin_after(e, requests[i].refresh.responses, OPENAI_API_BASE_URLS)
           /\ requests' = [requests EXCEPT
                  ![i].refresh = [@ EXCEPT !.pc = "done", !.raised = e.raised, !.data = e.data],
                  ![i].at = IF e.raised THEN "failed" ELSE "handler"]
    /\ UNCHANGED <<ENABLE_OPENAI_API, OPENAI_API_BASE_URLS, OPENAI_API_KEYS>>
    /\ UNCHANGED <<request, pass, call, listing, filterVars, pxVars, sse, normVars>>

\* generate_chat_completion of request i reads the catalog for its model.
routes(i) ==
    /\ requests[i].h = "generate_chat_completion"
    /\ requests[i].at = "handler"
    /\ requests' = [requests EXCEPT
           ![i].seen = {[ids |-> DOMAIN MODELS, origin |-> origin]},
           ![i].at = IF ID_llama3 \in DOMAIN MODELS THEN "done" ELSE "failed"]
    /\ UNCHANGED <<ENABLE_OPENAI_API, OPENAI_API_BASE_URLS, OPENAI_API_KEYS, MODELS, origin>>
    /\ UNCHANGED <<request, pass, call, listing, filterVars, pxVars, sse, normVars>>

\* update_openai_urls of request i: get_all_models, then the new URL list.
updates_urls(i, urls) ==
    /\ requests[i].h = "update_openai_urls"
    /\ requests[i].at = "handler"
    /\ LET p == get_all_models_begin(ENABLE_OPENAI_API, OPENAI_API_BASE_URLS, OPENAI_API_KEYS)
       IN  /\ requests' = [requests EXCEPT
                  ![i].update = p,
                  ![i].at = IF p.pc = "done" THEN "done" ELSE "awaiting"]
           /\ OPENAI_API_BASE_URLS' = IF p.pc = "done" THEN urls ELSE OPENAI_API_BASE_URLS
    /\ OPENAI_API_KEYS' = keys_after(ENABLE_OPENAI_API, OPENAI_API_BASE_URLS, OPENAI_API_KEYS)
    /\ UNCHANGED <<ENABLE_OPENAI_API, MODELS, origin>>
    /\ UNCHANGED <<request, pass, call, listing, filterVars, pxVars, sse, normVars>>

\* The gather of request i's update_openai_urls returns.
updates_urls_resume(i, urls) ==
    /\ requests[i].at = "awaiting"
    /\ Len(requests[i].update.responses) = Len(requests[i].update.tasks)
    /\ LET e == get_all_models_end(requests[i].update.responses, OPENAI_API_BASE_URLS, MODELS)
       IN  /\ MODELS' = e.MODELS
           /\ origin' = origin_after(e, requests[i].update.responses, OPENAI_API_BASE_URLS)
           /\ OPENAI_API_BASE_URLS' = IF e.raised THEN OPENAI_API_BASE_URLS ELSE urls
           /\ requests' = [requests EXCEPT
                  ![i].update = [@ EXCEPT !.pc = "done", !.raised = e.raised, !.data = e.data],
                  ![i].at = IF e.raised THEN "failed" ELSE "done"]
    /\ UNCHANGED <<ENABLE_OPENAI_API, OPENAI_API_KEYS>>
    /\ UNCHANGED <<request, pass, call, listing, filterVars, pxVars, sse, normVars>>

\* update_openai_key of request i.
updates_keys(i, keys) ==
    /\ requests[i].h = "update_openai_key"
    /\ requests[i].at = "handler"
    /\ OPENAI_API_KEYS' = keys
    /\ requests' = [requests EXCEPT ![i].at = "done"]
    /\ UNCHANGED <<ENABLE_OPENAI_API, OPENAI_API_BASE_URLS, MODELS, origin>>
    /\ UNCHANGED <<request, pass, call, listing, filterVars, pxVars, sse, normVars>>

\* update_config of request i.
updates_config(i, enable) ==
    /\ requests[i].h = "update_config"
    /\ requests[i].at = "handler"
    /\ ENABLE_OPENAI_API' = enable
    /\ requests' = [requests EXCEPT ![i].at = "done"]
    /\ UNCHANGED <<OPENAI_API_BASE_URLS, OPENAI_API_KEYS, MODELS, origin>>
    /\ UNCHANGED <<request, pass, call, listing, filterVars, pxVars, sse, normVars>>

InitConc ==
    /\ ENABLE_OPENAI_API = "True"
    /\ OPENAI_API_BASE_URLS = <<OpenAIUrl, OllamaUrl>>
    /\ OPENAI_API_KEYS = <<"sk-1", "sk-1">>
    /\ MODELS = <<>>
    /\ request = Idle
    /\ pass = NoPass
    /\ call = NoCall
    /\ listing = NoListing
    /\ NoModelFilter
    /\ NoConcurrency
    /\ NoOutbound
    /\ NoInbound
    /\ sse = NoSse

NextConc ==
    \E i \in 1..MaxRequests :
        \/ \E h \in ConcHandlers : arrives(i, h)
        \/ \E response \in ConcAnswers : fetch_url_refresh(i, response)
        \/ \E response \in ConcAnswers : fetch_url_update(i, response)
        \/ call_next(i)
        \/ routes(i)
        \/ \E urls \in ConcUrlLists : updates_urls(i, urls)
        \/ \E urls \in ConcUrlLists : updates_urls_resume(i, urls)
        \/ \E keys \in {<<"">>} : updates_keys(i, keys)
        \/ \E enable \in {"False"} : updates_config(i, enable)

\* Up to MaxRequests requests arrive in any order of their steps.
SpecConc == InitConc /\ [][NextConc]_vars

\* ------------------------------------------------- the specialized handlers

S_TASK_DONE == <<"TASK_DONE">>

\* f"data: {json.dumps({'choices': [{'delta': {'content': content}}]})}\n\n"
delta_line(content) == [envelope |-> "delta", content |-> content]

\* f"data: {json.dumps({'choices': [{'message': {'role': 'assistant',
\* 'content': 'TASK_DONE'}}]})}\n\n"
message_line(content) == [envelope |-> "message", content |-> content]

\* chunk.choices[0].delta.content of the chunks of the client's stream: a text or None.
ChunkContents == {{}, {<<"Hel">>}}

\* The lines of the leagent server's body, decoded and stripped.
LeagentMessages == {<<"step">>, S_TASK_DONE}

\* What leagent_processing yields for a line: message + "\n".
leagent_yields(message) == message \o <<"\n">>

\* The line event_generator of handle_leagent_request yields for what
\* leagent_processing yielded: message == "TASK_DONE" selects the final line.
leagent_line(yielded) ==
    IF yielded = S_TASK_DONE THEN message_line(S_TASK_DONE) ELSE delta_line(yielded)

\* The specialized handler the dispatch selected, up to its StreamingResponse.
\* handle_leagent_request subscripts payload["messages"]: KeyError without it.
handle_specialized_request ==
    /\ px.pc = "dispatched"
    /\ sse.pc = "none"
    /\ IF px.handler = "handle_leagent_request" /\ payload.messages = {}
          THEN /\ sse' = [NoSse EXCEPT !.handler = px.handler, !.pc = "raised"]
               /\ out' = InternalServerError
          ELSE /\ sse' = [NoSse EXCEPT !.handler = px.handler, !.pc = "streaming"]
               /\ out' = [NoOut EXCEPT !.kind = "stream", !.status = 200]
    /\ UNCHANGED <<aggVars, px, resp, stream, normVars>>

\* event_generator of handle_moonshot_request and handle_qianfan_request takes
\* one chunk of the stream and yields a line if the chunk has content.
event_generator_chunk(content) ==
    /\ sse.handler \in {"handle_moonshot_request", "handle_qianfan_request"}
    /\ sse.pc = "streaming"
    /\ sse.fed < MaxStream
    /\ sse' = [sse EXCEPT !.fed = @ + 1,
                          !.emitted = IF content = {} THEN @
                                      ELSE Append(@, delta_line(the(content)))]
    /\ UNCHANGED <<aggVars, pxVars, normVars>>

\* event_generator of handle_leagent_request takes one line of the server's
\* body through leagent_processing, which stops after TASK_DONE.
event_generator_message(message) ==
    /\ sse.handler = "handle_leagent_request"
    /\ sse.pc = "streaming"
    /\ sse.fed < MaxStream
    /\ LET yielded == leagent_yields(message)
       IN  sse' = [sse EXCEPT !.fed = @ + 1,
                              !.emitted = Append(@, leagent_line(yielded)),
                              !.pc = IF message = S_TASK_DONE \/ yielded = S_TASK_DONE
                                         THEN "ended" ELSE "streaming"]
    /\ UNCHANGED <<aggVars, pxVars, normVars>>

\* The upstream ends: the for loop of event_generator is over.
event_generator_end ==
    /\ sse.pc = "streaming"
    /\ sse' = [sse EXCEPT !.pc = "ended"]
    /\ UNCHANGED <<aggVars, pxVars, normVars>>

\* The upstream call raises inside event_generator.
event_generator_error ==
    /\ sse.pc = "streaming"
    /\ sse' = [sse EXCEPT !.pc = "error"]
    /\ UNCHANGED <<aggVars, pxVars, normVars>>

InitSpecialized ==
    /\ ENABLE_OPENAI_API = "True"
    /\ OPENAI_API_BASE_URLS = <<OllamaUrl>>
    /\ OPENAI_API_KEYS = <<"sk-1">>
    /\ MODELS = Catalog
    /\ request = Idle
    /\ pass = NoPass
    /\ call = NoCall
    /\ listing = NoListing
    /\ NoModelFilter
    /\ NoConcurrency
    /\ NoOutbound
    /\ model_info = {}
    /\ user = Ann
    /\ payload = NoPayload
    /\ form_data \in
          {[Inbound(id) EXCEPT !.messages = messages] :
              id \in {ID_moonshot_v1_8k, ID_ERNIE_3_5_8K, ID_LeAgent_1},
              messages \in {{}, {<<>>}, {<<[role |-> "user", content |-> Content("hi")]>>}}}
    /\ sse = NoSse

NextSpecialized ==
    \/ px.pc = "idle" /\ generate_chat_completion
    \/ handle_specialized_request
    \/ \E content \in ChunkContents : event_generator_chunk(content)
    \/ \E message \in LeagentMessages : event_generator_message(message)
    \/ event_generator_end
    \/ event_generator_error

\* One chat completion for a model with a reserved prefix, to the end of its stream.
SpecSpecialized == InitSpecialized /\ [][NextSpecialized]_vars

\* ------------------------------------------------- requests around a disabled API

InitDisabled ==
    /\ ENABLE_OPENAI_API \in {"True", "False"}
    /\ OPENAI_API_BASE_URLS \in {<<OllamaUrl>>, <<OpenAIUrl, OllamaUrl>>}
    /\ OPENAI_API_KEYS \in {<<"">>, <<"sk-1">>}
    /\ MODELS = <<>>
    /\ request = Idle
    /\ pass = NoPass
    /\ call = NoCall
    /\ listing = NoListing
    /\ NoModelFilter
    /\ NoConcurrency
    /\ NoOutbound
    /\ model_info = {}
    /\ user = Ann
    /\ payload = NoPayload
    /\ form_data = Inbound(ID_llama3)
    /\ sse = NoSse

\* Listings and updates of the configuration, one after another, and a chat
\* completion that the middleware passes on because the catalog is not empty.
NextDisabled ==
    \/ \E h \in {"get_models", "update_config", "update_openai_key"} : check_url(h)
    \/ \E response \in Answers : fetch_url(response)
    \/ check_url_resume
    \/ \E enable \in {"True", "False"} : update_config(enable)
    \/ \E keys \in {<<"">>, <<"sk-1">>} : update_openai_key(keys)
    \/ get_models("admin")
    \/ get_models_resume
    \/ request = Idle /\ DOMAIN MODELS # {} /\ px.pc = "idle" /\ generate_chat_completion

SpecDisabled == InitDisabled /\ [][NextDisabled]_vars

\* ------------------------------------------------------------------ claims

SyntheticIds == {e.id : e \in Range(moonshot_models \o qianfan_models)}

\* A pass that left the fast path has ended (returned or raised).
PassEnded == pass.pc = "done" /\ ~pass.fast

\* Response i of the pass carries a list of models.
HasModels(i) ==
    \/ pass.responses[i].t = "list"
    \/ pass.responses[i].t = "dict" /\ pass.responses[i].has_data

\* Backend i (1-based) listed model m and the canonical-OpenAI filter lets it through.
Contributes(i, m) ==
    /\ HasModels(i)
    /\ m \in Range(pass.responses[i].items)
    /\ (~Contains(<<"api.openai.com">>, pass.urls0[i]) \/ Contains(<<"gpt">>, m.id))

\* Every backend either failed (None) or answered with a list of models.
OnlyFailuresAndLists ==
    \A i \in 1..Len(pass.responses) : pass.responses[i].t = "None" \/ HasModels(i)

\* C1: when any of the backends fail (fetch_url yields None) and the others
\* answer with their models, get_all_models does not raise, the request goes on
\* to its handler, and every model of every remaining backend that the
\* canonical-OpenAI filter lets through is in the returned list with that
\* backend's index and, by its id, in the catalog.
C1_PartialFailureTolerated ==
    (PassEnded /\ OnlyFailuresAndLists) =>
        /\ ~pass.raised
        /\ request.at = "handler"
        /\ \A i \in 1..Len(pass.responses) : \A m \in BackendModelSet :
              Contributes(i, m) =>
                 /\ m.id \in DOMAIN MODELS
                 /\ \E k \in 1..Len(pass.data) :
                       pass.data[k].id = m.id /\ pass.data[k].urlIdx = {i - 1}

\* A pass of MaxUrls backends of which one failed and another contributed a model.
C1_Witness ==
    /\ PassEnded /\ OnlyFailuresAndLists
    /\ Len(pass.responses) = MaxUrls
    /\ \E i \in 1..Len(pass.responses) : pass.responses[i].t = "None"
    /\ \E i \in 1..Len(pass.responses) : \E m \in BackendModelSet : Contributes(i, m)

\* The ids the backends of the pass listed, and the last backend that listed one.
ListedIds ==
    {m.id : m \in {x \in BackendModelSet :
                     \E i \in 1..Len(pass.responses) :
                        HasModels(i) /\ x \in Range(pass.responses[i].items)}}
LastListing(id) ==
    CHOOSE i \in 1..Len(pass.responses) :
        /\ HasModels(i) /\ \E m \in Range(pass.responses[i].items) : m.id = id
        /\ \A j \in (i + 1)..Len(pass.responses) :
              ~(HasModels(j) /\ \E m \in Range(pass.responses[j].items) : m.id = id)

\* The same for the models the filter lets through.
KeptIds ==
    {m.id : m \in {x \in BackendModelSet :
                     \E i \in 1..Len(pass.responses) : Contributes(i, x)}}
LastContribution(id) ==
    CHOOSE i \in 1..Len(pass.responses) :
        /\ \E m \in BackendModelSet : m.id = id /\ Contributes(i, m)
        /\ \A j \in (i + 1)..Len(pass.responses) :
              ~(\E m \in BackendModelSet : m.id = id /\ Contributes(j, m))

\* C2 as claimed: after a refresh the catalog has an entry for every id a
\* backend listed, and its urlIdx is the index of the last backend that listed it.
C2_AsClaimed ==
    (PassEnded /\ ~pass.raised) =>
        \A id \in ListedIds :
            /\ id \in DOMAIN MODELS
            /\ MODELS[id].id = id
            /\ MODELS[id].urlIdx = {LastListing(id) - 1}

\* C2, amended: after a refresh the catalog has exactly one entry per id that is
\* synthetic or that some backend listed and the canonical-OpenAI filter let
\* through; the entry of a synthetic id is the synthetic one, whichever backends
\* list that id; the urlIdx of any other entry is the index of the last backend
\* whose filtered list has the id.
C2_MergeDeterminism ==
    (PassEnded /\ ~pass.raised) =>
        /\ DOMAIN MODELS = KeptIds \cup SyntheticIds
        /\ \A id \in DOMAIN MODELS : MODELS[id].id = id
        /\ \A id \in KeptIds \ SyntheticIds :
              MODELS[id].urlIdx = {LastContribution(id) - 1}
        /\ \A e \in Range(moonshot_models \o qianfan_models) : MODELS[e.id] = e

\* Two backends contributed the same id, which is not synthetic.
C2_Witness ==
    /\ PassEnded /\ ~pass.raised
    /\ \E id \in KeptIds \ SyntheticIds :
       \E i, j \in 1..Len(pass.responses) :
          /\ i < j
          /\ \E m \in BackendModelSet : m.id = id /\ Contributes(i, m) /\ Contributes(j, m)
          /\ MODELS[id].urlIdx = {j - 1}

\* The configuration a call of get_all_models found is one of the fast path:
\* the API is disabled, or exactly one key is configured and it is empty.
FoundNotConfigured ==
    \/ pass.enable0 # "True"
    \/ Len(pass.keys0) = 1 /\ pass.keys0[1] = ""

\* C8: a get_all_models call that finds the API disabled, or exactly one key and
\* that key empty, returns an empty model list without creating a single
\* fetch task or waiting for a response, whatever the URL list is.
C8_FastPath ==
    (pass.pc # "none" /\ FoundNotConfigured) =>
        /\ pass.pc = "done"
        /\ pass.data = <<>>
        /\ pass.tasks = <<>>
        /\ pass.responses = <<>>

\* The fast path was taken with the API enabled, a single empty key and MaxUrls URLs.
C8_Witness ==
    /\ pass.pc = "done" /\ pass.fast
    /\ pass.enable0 = "True"
    /\ pass.keys0 = <<"">>
    /\ Len(pass.urls0) = MaxUrls

\* C9: once get_all_models has run its reconciliation (it left the fast path),
\* the key list is as long as the URL list: the first U of the keys it found
\* when there were more than U, those keys followed by empty strings when
\* there were fewer, the same keys when there were U; and the URL list is the
\* one it found.
C9_ListReconciliation ==
    (pass.pc \in {"gather", "done"} /\ ~pass.fast) =>
        LET U == Len(pass.urls0)
            K == Len(pass.keys0)
        IN  /\ Len(OPENAI_API_KEYS) = U
            /\ K > U => OPENAI_API_KEYS = SubSeq(pass.keys0, 1, U)
            /\ K < U => /\ \A i \in 1..K : OPENAI_API_KEYS[i] = pass.keys0[i]
                        /\ \A i \in (K + 1)..U : OPENAI_API_KEYS[i] = ""
            /\ K = U => OPENAI_API_KEYS = pass.keys0
            /\ pass.pc = "gather" => OPENAI_API_BASE_URLS = pass.urls0

\* A pass found more keys than URLs, with at least one URL.
C9_Witness ==
    /\ pass.pc = "gather"
    /\ Len(pass.keys0) > Len(pass.urls0)
    /\ Len(pass.urls0) >= 1

\* C10 as claimed: when update_openai_urls or update_openai_key has returned,
\* the stored key list and URL list are equally long, and the indexed lookups
\* of get_models never read them while their lengths differ.
C10_EqualLengthAfterUpdates ==
    /\ (call.op \in {"update_openai_urls", "update_openai_key"} /\ call.error = "")
          => Len(OPENAI_API_KEYS) = Len(OPENAI_API_BASE_URLS)
    /\ call.op = "get_models_idx" => Len(OPENAI_API_KEYS) = Len(OPENAI_API_BASE_URLS)

\* ---------------------------------------------------------------- C3, C4, C5

IsPrefix(s, t) == Len(s) <= Len(t) /\ SubSeq(t, 1, Len(s)) = s

Relaying == px.pc \in {"streaming", "background"} \cup Relayed

\* C3: a call that reaches the outbound step opens one session and issues one
\* request; nothing is released while the handler still uses the response; when
\* the handler has returned or raised without streaming, the session has been
\* closed once and the response, if one was received, has been closed once; when
\* it has returned a streaming response it has released neither.
C3_ConnectionOwnership ==
    /\ px.pc \notin {"idle"} \cup Failed => px.opened = 1 /\ px.issued = 1
    /\ px.pc \in {"request", "json", "except"} =>
          px.session = "open" /\ px.s_closes = 0 /\ px.r_closes = 0
    /\ px.pc \in Returned =>
          /\ ~px.streaming
          /\ px.session = "closed" /\ px.s_closes = 1
          /\ px.r \in {"None", "closed"}
          /\ px.r_closes = (IF px.r = "None" THEN 0 ELSE 1)
          /\ px.cleanups = 0
    /\ px.pc = "streaming" =>
          /\ px.streaming
          /\ px.session = "open" /\ px.r = "open"
          /\ px.s_closes = 0 /\ px.r_closes = 0

\* A body that does not decode, on a 200 answer: the handler has raised, with
\* the response and the session closed.
C3_Witness ==
    /\ px.pc = "raised"
    /\ resp.status = 200 /\ resp.body = "undecodable"
    /\ px.r = "closed" /\ px.session = "closed"

\* C4: cleanup_response runs at most once and only after the relay has ended,
\* and a call that has entered the streaming state is eventually cleaned up,
\* whichever way the relay ends.
C4_DeferredCleanup ==
    /\ [](px.cleanups <= 1 /\ (px.cleanups = 1 => px.pc = "cleaned"))
    /\ [](px.pc = "streaming" => <>(px.cleanups = 1))

\* C5: the streaming response carries the backend's status code and the headers
\* the backend sent; what has been delivered to the caller is a prefix of what
\* has been received from the backend, and equal to it on normal completion.
C5_StreamingPassthrough ==
    Relaying =>
        /\ out.status = resp.status
        /\ out.headers = resp.headers
        /\ IsPrefix(stream.delivered, stream.received)
        /\ out.kind = "stream_complete" => stream.delivered = stream.received

\* The part of C5 about the bytes alone.
C5_BytesInOrder ==
    Relaying =>
        /\ IsPrefix(stream.delivered, stream.received)
        /\ out.kind = "stream_complete" => stream.delivered = stream.received

\* -------------------------------------------------------------------- C6, C7

\* The request went through the payload pipeline to its outbound step.
Forwarded == px.handler = "generate_chat_completion" /\ px.pc = "request"

\* The profile's value in the numeric type of its field: temperature a float,
\* top_p, max_tokens and frequency_penalty integers, seed as it is.
Coerced(f, x) ==
    CASE f = "temperature" -> PyNumber("float", x.v)
      [] f \in {"top_p", "max_tokens", "frequency_penalty"} ->
            PyNumber("int", IF x.v >= 0 THEN x.v - (x.v % 10) ELSE x.v + ((-x.v) % 10))
      [] f = "seed" -> x

\* C6: for each of temperature, top_p, max_tokens, frequency_penalty and seed,
\* the forwarded payload carries the profile's value when it is not null, zero
\* included, and the inbound field unchanged when it is null.
C6_ParameterOverride ==
    Forwarded /\ model_info # {} =>
        \A f \in Fields :
            LET value == (CHOOSE mi \in model_info : TRUE).params[f]
            IN  IF value # {}
                    THEN payload[f] = {Coerced(f, CHOOSE x \in value : TRUE)}
                    ELSE payload[f] = form_data[f]

\* The profile defines a system template.
DefinesSystem ==
    /\ model_info # {}
    /\ \E mi \in model_info : mi.params.system \notin {{}, {""}}

Rendered ==
    LET mi == CHOOSE m \in model_info : TRUE
    IN  [template |-> CHOOSE t \in mi.params.system : TRUE,
         user_name |-> user.name,
         user_location |-> IF user.info = {} THEN {}
                           ELSE (CHOOSE i \in user.info : TRUE).location]

InboundMessages == IF form_data.messages = {} THEN <<>> ELSE CHOOSE m \in form_data.messages : TRUE

SystemAt(messages) == {i \in 1..Len(messages) : messages[i].role = "system"}

\* C7: with a profile that defines a system template, for any inbound message
\* list, an empty or absent one included: without a system message the payload
\* gains one system message at position 0 whose content is the rendered
\* template; with one, the rendered template goes before the content of the
\* first system message and nothing else changes.
C7_SystemPromptInjection ==
    Forwarded /\ DefinesSystem =>
        /\ payload.messages # {}
        /\ \E forwarded \in payload.messages :
              IF SystemAt(InboundMessages) = {}
                  THEN forwarded =
                          <<[role |-> "system",
                             content |-> [rendered |-> <<Rendered>>, text |-> ""]]>>
                              \o InboundMessages
                  ELSE /\ Len(forwarded) = Len(InboundMessages)
                       /\ \A i \in 1..Len(forwarded) :
                             /\ forwarded[i].role = InboundMessages[i].role
                             /\ forwarded[i].content.text = InboundMessages[i].content.text
                             /\ forwarded[i].content.rendered =
                                   IF \A j \in SystemAt(InboundMessages) : i <= j
                                           /\ i \in SystemAt(InboundMessages)
                                       THEN <<Rendered>>
                                       ELSE <<>>

\* C7 for the requests that bring at least one message.
C7_WithMessages == InboundMessages # <<>> => C7_SystemPromptInjection

\* C6 where no profile value is zero and the model is not the vision preview.
C6_NonZero ==
    (/\ model_info # {}
     /\ \A mi \in model_info : \A f \in Fields : \A x \in mi.params[f] : x.v # 0
     /\ form_data.model # ID_gpt_4_vision_preview) => C6_ParameterOverride

\* ----------------------------------------------------------------------- C11

\* C11: when update_openai_urls has returned after a pass, every catalog entry
\* that comes from a backend has a urlIdx that, in the URL list now stored (the
\* new one), names the backend that listed it.
C11_RefreshOnUrlUpdate ==
    (call.op = "update_openai_urls" /\ call.error = "" /\ PassEnded) =>
        \A id \in KeptIds \ SyntheticIds :
            LET i == LastContribution(id)
            IN  /\ MODELS[id].urlIdx = {i - 1}
                /\ i <= Len(OPENAI_API_BASE_URLS)
                /\ OPENAI_API_BASE_URLS[i] = pass.urls0[i]

\* ----------------------------------------------------------------------- C12

\* The entries of the returned list that come from the backends: the ones
\* before the synthetic entries.
Contributed == SubSeq(pass.data, 1, Len(pass.data) - Len(moonshot_models \o qianfan_models))

\* A pass, or a listing by index, with a filter that applies to the backends
\* whose URL satisfies Filtered: a model a backend lists is in that backend's
\* contribution exactly when the backend is not filtered or the id has "gpt".
FilterBy(Filtered(_)) ==
    /\ (PassEnded /\ ~pass.raised) =>
          \A i \in 1..Len(pass.responses) : HasModels(i) =>
             \A m \in Range(pass.responses[i].items) :
                (\E k \in 1..Len(Contributed) :
                    Contributed[k].id = m.id /\ Contributed[k].urlIdx = {i - 1})
                   <=> (~Filtered(pass.urls0[i]) \/ Contains(<<"gpt">>, m.id))
    /\ (listing.op = "get_models_idx" /\ listing.kind = "data" /\ listing.r.data # {}) =>
          \E listed \in listing.r.data : \E returned \in listing.data :
             /\ Range(returned) \subseteq Range(listed)
             /\ \A m \in Range(listed) :
                   m \in Range(returned)
                      <=> (~Filtered(listing.url) \/ Contains(<<"gpt">>, m.id))

IsCanonical(url) == url = <<"https://", "api.openai.com", "/v1">>
HasOpenAIHost(url) == Contains(<<"api.openai.com">>, url)

\* C12 as claimed: the backend whose base URL is the canonical OpenAI endpoint
\* contributes only models with "gpt" in the id, and every model of any other
\* backend is kept.
C12_AsClaimed == FilterBy(IsCanonical)

\* C12, amended: a backend whose base URL contains "api.openai.com" contributes
\* only models with "gpt" in the id, in a pass and in a listing by index; every
\* model of a backend whose URL does not contain it is kept.
C12_CanonicalFilter == FilterBy(HasOpenAIHost)

\* A pass in which the regional endpoint listed a model without "gpt", dropped.
C12_Witness ==
    /\ PassEnded /\ ~pass.raised
    /\ \E i \in 1..Len(pass.responses) :
          /\ pass.urls0[i] = EuOpenAIUrl
          /\ HasModels(i)
          /\ \E m \in Range(pass.responses[i].items) :
                /\ ~Contains(<<"gpt">>, m.id)
                /\ \A k \in 1..Len(Contributed) : Contributed[k].id # m.id

\* ----------------------------------------------------------------------- C13

\* The chat-completion handler has run, on its normal path, for a model id that,
\* after the profile's base model has replaced it, is not in the catalog.
NotInCatalog ==
    /\ px.handler = "generate_chat_completion"
    /\ px.pc # "idle"
    /\ payload.model \notin DOMAIN MODELS

\* C13: a chat-completion request for a model that matches no reserved prefix
\* and is not in the catalog fails with a 401- or 404-class error and issues no
\* outbound call.
C13_ModelNotFound ==
    NotInCatalog =>
        /\ out.kind = "error"
        /\ out.status \in {401, 404}
        /\ px.opened = 0 /\ px.issued = 0

\* The part of C13 that holds: the request fails and issues no outbound call.
C13_NoOutboundCall ==
    NotInCatalog =>
        /\ out.kind = "error"
        /\ px.pc = "failed"
        /\ px.opened = 0 /\ px.issued = 0

\* ----------------------------------------------------------------------- C14

\* A listing by index was asked with an index the URL list does not have.
ListingOutOfRange ==
    /\ listing.op = "get_models_idx"
    /\ \E url_idx \in listing.url_idx : url_idx >= Len(OPENAI_API_BASE_URLS)

\* A chat completion found its model in the catalog with a urlIdx the URL list
\* does not have.
ForwardingOutOfRange ==
    /\ px.handler = "generate_chat_completion"
    /\ px.pc # "idle"
    /\ payload.model \in DOMAIN MODELS
    /\ \E idx \in MODELS[payload.model].urlIdx : idx >= Len(OPENAI_API_BASE_URLS)

\* C14: model-listing with a url_idx of at least the number of configured
\* backends fails with a 4xx-class error and issues no outbound call, and so
\* does a chat completion whose catalog entry has a urlIdx out of range.
C14_IndexOutOfRange ==
    /\ ListingOutOfRange =>
          listing.kind = "error" /\ listing.status \in 400..499 /\ listing.issued = 0
    /\ ForwardingOutOfRange =>
          out.kind = "error" /\ out.status \in 400..499 /\ px.issued = 0

\* The part of C14 that holds: both fail, without an outbound call.
C14_NoOutboundCall ==
    /\ ListingOutOfRange => listing.kind = "error" /\ listing.issued = 0
    /\ ForwardingOutOfRange => out.kind = "error" /\ px.issued = 0

\* ----------------------------------------------------------------------- C15

\* A backend answered non-2xx to a chat completion or a proxied request, or to
\* a model listing by index.
OutboundRefused == resp.status >= 400
ListingRefused == listing.op = "get_models_idx" /\ listing.r.status_code >= 400

Generic == "Open WebUI: Server Connection Error"

\* After a non-2xx answer the call returns neither a stream nor a JSON body: it
\* is in its except block or has raised, and the detail it raised with is
\* WhenUndecodable for a body that does not parse, "External: ..." for one that
\* parses with an error field, the generic message for one that parses without.
ErrorTranslation(WhenUndecodable) ==
    /\ OutboundRefused =>
          /\ px.pc \in {"except", "raised"}
          /\ ~px.streaming
          /\ out.kind \in {"none", "error"}
          /\ px.pc = "raised" =>
                /\ out.kind = "error"
                /\ resp.body = "error_message" => out.detail = "External: message"
                /\ resp.body = "error_plain" => out.detail = "External: error"
                /\ resp.body = "object" => out.detail = Generic
                /\ resp.body = "undecodable" => out.detail = WhenUndecodable
    /\ ListingRefused =>
          /\ listing.kind = "error"
          /\ listing.data = {}
          /\ (listing.r.decodes /\ listing.r.has_error) => listing.detail = "External: error"
          /\ (listing.r.decodes /\ ~listing.r.has_error) => listing.detail = Generic
          /\ ~listing.r.decodes => listing.detail = WhenUndecodable

Listed == listing.op = "get_models" /\ listing.kind = "data"

\* The caller is restricted: the model filter is enabled and the role is "user".
Restricted == ENABLE_MODEL_FILTER /\ listing.role = "user"

\* The positions of the returned list whose id is allowed.
AllowedAt(data) == {k \in 1..Len(data) : data[k].id \in MODEL_FILTER_LIST}

ReservedFor(model_id) ==
    {prefix \in {"leagent", "moonshot", "ernie"} :
        /\ Len(model_id) >= 1
        /\ \/ model_id[1] = prefix
           \/ prefix = "ernie" /\ model_id[1] = "ERNIE"
           \/ prefix = "leagent" /\ model_id[1] = "LeAgent"}

HandlerOf(prefix) ==
    CASE prefix = "leagent" -> "handle_leagent_request"
      [] prefix = "moonshot" -> "handle_moonshot_request"
      [] prefix = "ernie" -> "handle_qianfan_request"

SpecializedHandlers ==
    {"handle_leagent_request", "handle_moonshot_request", "handle_qianfan_request"}

\* C17: a chat-completion request whose model id starts, without regard to
\* case, with leagent, moonshot or ernie is handed to that prefix's handler
\* with the payload as it came: no override of the profile, no catalog lookup
\* (the id need not be in the catalog), no session to a configured backend;
\* a request with any other model id is not handed to a specialized handler.
C17_ReservedPrefixDispatch ==
    px.pc # "idle" =>
        /\ \A prefix \in ReservedFor(form_data.model) :
              /\ px.pc = "dispatched"
              /\ px.handler = HandlerOf(prefix)
              /\ payload = form_data
              /\ out = NoOut
              /\ px.opened = 0 /\ px.issued = 0 /\ px.session = "None"
        /\ ReservedFor(form_data.model) = {} =>
              px.pc # "dispatched" /\ px.handler \notin SpecializedHandlers

\* A request for an ERNIE model that is not looked up, with a profile whose
\* base model and system template are not applied.
C17_Witness ==
    /\ px.pc = "dispatched" /\ px.handler = "handle_qianfan_request"
    /\ form_data.model = ID_ERNIE_3_5_8K
    /\ \E mi \in model_info : mi.base_model_id # {} /\ mi.params.system \notin {{}, {""}}
    /\ form_data.messages = {<<>>}
    /\ payload = form_data

\* ----------------------------------------------------------------------- C18

\* The models a response lists: a list, or the "data" of an object.
ListedBy(response) ==
    IF response.t = "list" \/ (response.t = "dict" /\ response.has_data)
        THEN Range(response.items)
        ELSE {}

\* The ids of the complete catalog of a gather: every model its responses
\* list that the filter of its backend keeps, and every synthetic model; the
\* start-up catalog is empty.
CompleteIds(o) ==
    IF ~o.set THEN {}
    ELSE SyntheticIds \cup
         {m.id : m \in UNION {
             {x \in ListedBy(o.responses[i]) :
                 ~Contains(S_api_openai_com, o.urls[i]) \/ Contains(S_gpt, x.id)} :
             i \in 1..Len(o.responses)}}

\* C18: whatever requests, refreshes and admin updates are interleaved, the
\* stored catalog is at every moment, and so at every read, the start-up
\* catalog or the complete catalog of a call of get_all_models that has ended
\* without an exception, and so is the catalog every handler has read.
C18_AtomicCatalogSwap ==
    /\ DOMAIN MODELS = CompleteIds(origin)
    /\ \A id \in DOMAIN MODELS : MODELS[id].id = id
    /\ \A i \in 1..MaxRequests : \A s \in requests[i].seen : s.ids = CompleteIds(s.origin)

\* A handler has read a catalog with a backend's model while the gather of
\* another request has one of its two responses, a list of models.
C18_Witness ==
    \E i, j \in 1..MaxRequests :
        /\ i # j
        /\ requests[i].at = "done"
        /\ \E s \in requests[i].seen : ID_llama3 \in s.ids
        /\ requests[j].refresh.pc = "gather"
        /\ Len(requests[j].refresh.tasks) = 2
        /\ Len(requests[j].refresh.responses) = 1
        /\ requests[j].refresh.responses[1].t = "dict"

\* ----------------------------------------------------------------------- C19

\* The handler of request i has started: the routing decision is made.
Routed(i) == requests[i].at \in {"handler", "awaiting", "done"}

\* C19: when the handler of a request that found the catalog empty runs, the
\* get_all_models the middleware started for that request has returned; a
\* request that found the catalog non-empty has no get_all_models of the
\* middleware at all.
C19_LazyRefreshOrdering ==
    \A i \in 1..MaxRequests :
        /\ (Routed(i) /\ requests[i].found_empty) =>
              requests[i].refresh.pc = "done" /\ ~requests[i].refresh.raised
        /\ (requests[i].at # "none" /\ ~requests[i].found_empty) =>
              requests[i].refresh = NoPass

\* A request found the catalog empty, waited for its two tasks and was routed
\* while another request still waits for its own gather; and a later request
\* found the catalog filled and was routed at once.
C19_Witness ==
    \E i, j \in 1..MaxRequests :
        /\ i # j
        /\ requests[i].found_empty /\ requests[i].at = "done"
        /\ Len(requests[i].refresh.responses) = 2
        /\ requests[j].at # "none"
        /\ \/ requests[j].found_empty /\ requests[j].at = "middleware"
           \/ ~requests[j].found_empty /\ requests[j].at = "done"

\* ----------------------------------------------------------------------- C20

\* The requests sent to the backend at position n of the URL list and not yet
\* answered, over the passes of all the requests in the middleware.
InFlightTo(n) ==
    {i \in 1..MaxRequests :
        /\ requests[i].refresh.pc = "gather"
        /\ n <= Len(requests[i].refresh.tasks)
        /\ Len(requests[i].refresh.responses) < n}

\* C20: every request that found the catalog empty started a get_all_models
\* of its own on arrival, with one task for each configured backend, whether
\* or not other passes were in flight.
C20_NoDeduplication ==
    \A i \in 1..MaxRequests :
        (requests[i].at # "none" /\ requests[i].found_empty) =>
            /\ requests[i].refresh.pc # "none"
            /\ ~requests[i].refresh.fast =>
                  Len(requests[i].refresh.tasks) = Len(requests[i].refresh.urls0)

\* All the requests wait for their own gather at the same time, each with a
\* request in flight to each of the two backends.
C20_Witness ==
    /\ \A i \in 1..MaxRequests : requests[i].at = "middleware"
    /\ \A n \in 1..2 : InFlightTo(n) = 1..MaxRequests
    /\ MaxRequests >= 2

\* ----------------------------------------------------------------------- C21

\* Response i decoded, and is not a catalog: an object without "data", a
\* number, a string.
NotACatalog(i) ==
    \/ pass.responses[i].t \in {"int", "str"}
    \/ pass.responses[i].t = "dict" /\ ~pass.responses[i].has_data

\* C21: a pass in which some backends answer with a decoded value that is not
\* a catalog does not raise; those backends contribute no entry, and every
\* model of the other backends that the filter lets through is merged.
C21_NonCatalogTolerated ==
    PassEnded =>
        /\ ~pass.raised
        /\ \A k \in 1..Len(pass.data) : \A i \in 1..Len(pass.responses) :
              (NotACatalog(i) /\ pass.data[k].id \notin SyntheticIds) =>
                  pass.data[k].urlIdx # {i - 1}
        /\ \A i \in 1..Len(pass.responses) : \A m \in BackendModelSet :
              Contributes(i, m) => m.id \in DOMAIN MODELS

\* ----------------------------------------------------------------------- C22

\* C22: after a pass that left the fast path and did not raise, every
\* synthetic id is in the catalog and none of these entries carries a urlIdx.
C22_SyntheticEntries ==
    (PassEnded /\ ~pass.raised) =>
        \A id \in SyntheticIds :
            /\ id \in DOMAIN MODELS
            /\ MODELS[id].urlIdx = {}

\* The part of C22 that holds: every synthetic id is in the catalog.
C22_SyntheticIdsPresent ==
    (PassEnded /\ ~pass.raised) => SyntheticIds \subseteq DOMAIN MODELS

\* ----------------------------------------------------------------------- C23

IsDeltaLine(l) == l.envelope = "delta"

\* The completion line: the message envelope with TASK_DONE.
IsSentinel(l) == l.envelope = "message" /\ l.content = <<"TASK_DONE">>

\* C23: every line a specialized handler yields is a delta-content line or
\* the completion line, the completion line comes last and once, and a stream
\* that ended without an error of the upstream call ends with it.
C23_StreamShape ==
    /\ \A k \in 1..Len(sse.emitted) :
          \/ IsDeltaLine(sse.emitted[k])
          \/ IsSentinel(sse.emitted[k]) /\ k = Len(sse.emitted)
    /\ sse.pc = "ended" =>
          /\ sse.emitted # <<>>
          /\ IsSentinel(sse.emitted[Len(sse.emitted)])

\* The part of C23 that holds: every line yielded is a delta-content line.
C23_DeltaLinesOnly ==
    \A k \in 1..Len(sse.emitted) : IsDeltaLine(sse.emitted[k])

\* ----------------------------------------------------------------------- C24

\* The calls of get_all_models that have returned or raised after a gather.
EndedPasses ==
    {p \in UNION {{requests[i].refresh, requests[i].update} : i \in 1..MaxRequests} :
        p.pc = "done" /\ ~p.fast}

\* The merge of pass p treated position n (1-based) with the URL the pass
\* queried for it: a model the position listed is in the result with that
\* index exactly when the filter of that URL keeps it.
MergedWithQueriedUrl(p, n) ==
    \A m \in ListedBy(p.responses[n]) :
        m.id \notin SyntheticIds =>
            ((~Contains(S_api_openai_com, p.urls0[n]) \/ Contains(S_gpt, m.id))
                <=> \E k \in 1..Len(p.data) :
                        p.data[k].id = m.id /\ p.data[k].urlIdx = {n - 1})

\* C24: in every pass, also one whose gather an update of the URL list
\* overlaps, each position is filtered and tagged against the URL that was
\* queried for it, and the pass raises only for a response it cannot read.
C24_SameUrlListWithinPass ==
    \A p \in EndedPasses :
        IF p.raised
            THEN \E n \in 1..Len(p.responses) : p.responses[n].t = "int"
            ELSE \A n \in 1..Len(p.responses) : MergedWithQueriedUrl(p, n)

\* ----------------------------------------------------------------------- C25

\* C25: after any refreshes, URL updates and key updates, the urlIdx of every
\* catalog entry that has one is an index of the URL list and of the key list.
C25_UrlIdxInRange ==
    \A id \in DOMAIN MODELS : \A idx \in MODELS[id].urlIdx :
        /\ 0 <= idx
        /\ idx < Len(OPENAI_API_BASE_URLS)
        /\ idx < Len(OPENAI_API_KEYS)

\* ----------------------------------------------------------------------- C26

\* A request arrives in this step.
Arrives == request = Idle /\ request' # Idle

\* A call of get_all_models, of the middleware or of get_models, is made in
\* this step and returns on the fast path.
FastPassEnds ==
    /\ Arrives \/ request = [h |-> "get_models", at |-> "handler"]
    /\ pass'.pc = "done" /\ pass'.fast

\* The API is disabled, or the key list is one empty key.
FastPathConfigured == ENABLE_OPENAI_API # "True" \/ OPENAI_API_KEYS = <<"">>

\* The model of the chat completion is in the catalog, with an index of both lists.
Routable ==
    /\ form_data.model \in DOMAIN MODELS
    /\ \E idx \in MODELS[form_data.model].urlIdx :
          idx < Len(OPENAI_API_BASE_URLS) /\ idx < Len(OPENAI_API_KEYS)

\* What C26 says of one step.
FastPathStep ==
    /\ FastPassEnds => UNCHANGED <<MODELS, OPENAI_API_BASE_URLS, OPENAI_API_KEYS>>
    /\ (Arrives /\ DOMAIN MODELS = {} /\ FastPathConfigured) => FastPassEnds
    /\ (px.pc = "idle" /\ px'.pc # "idle" /\ Routable) => (px'.opened = 1 /\ px'.issued = 1)

\* C26: a call of get_all_models on the fast path leaves the catalog, the URL
\* list and the key list as they are; every request that arrives while the
\* catalog is empty and the fast path is configured runs the fast path again;
\* and a chat completion for a model of the catalog is sent to its backend
\* whether or not the API is enabled.
C26_FastPathFrame == [][FastPathStep]_vars

\* The API was disabled after the catalog was built, a listing then took the
\* fast path, and a chat completion for a model of the catalog went out.
C26_Witness ==
    /\ ENABLE_OPENAI_API = "False"
    /\ pass.pc = "done" /\ pass.fast
    /\ ID_llama3 \in DOMAIN MODELS
    /\ listing.op = "get_models"
    /\ px.handler = "generate_chat_completion" /\ px.opened = 1

====
